---- MODULE Spec2Model ----
(***************************************************************************)
(* Knight Engine 2D: the engine loop (engine_run), the z-ordered render    *)
(* pass (engine_render), the input tracker and the texture cache.          *)
(*                                                                         *)
(* Three specifications share the variables below:                         *)
(*   Spec        the frames of engine_run, step by step                    *)
(*   RenderSpec  engine_render applied to an arbitrary sprite store        *)
(*   TextureSpec the texture manager's operations                          *)
(*                                                                         *)
(* Time is counted in units of 1/(1000 * TARGET_FPS) second, so that one   *)
(* millisecond of SDL_GetTicks and FIXED_TIMESTEP = 1/TARGET_FPS are both  *)
(* whole numbers of units; positions are counted in the matching unit      *)
(* (pixel / UnitsPerSecond) so that velocity * delta_time is exact.  The   *)
(* float arithmetic of the source is read as exact arithmetic.             *)
(***************************************************************************)
EXTENDS Integers, Sequences, FiniteSets, TLC

(* ------------------------------------------------------------------ *)
(* Configuration constants (config.h)                                  *)
(* ------------------------------------------------------------------ *)
WINDOW_WIDTH == 800
WINDOW_HEIGHT == 600
SPRITE_WIDTH == 64
SPRITE_HEIGHT == 64
SPRITE_SPEED == 300
SPRITE_MAX_COUNT == 256
TARGET_FPS == 60
CAMERA_SPEED == 200
TEXTURE_MAX_ENTRIES == 32
TEXTURE_PATH_MAX_LEN == 128
INPUT_MAX_KEYS == 512
STRESS_TEST_SPRITE_COUNT == 150

UnitsPerSecond == 1000 * TARGET_FPS
UnitsPerMs == UnitsPerSecond \div 1000

FIXED_TIMESTEP == UnitsPerSecond \div TARGET_FPS
MAX_DELTA_TIME == UnitsPerSecond \div 10
MAX_ACCUMULATOR == UnitsPerSecond \div 4

Px(n) == n * UnitsPerSecond

PLAYER_START_X == Px(WINDOW_WIDTH - SPRITE_WIDTH) \div 2
PLAYER_START_Y == Px(WINDOW_HEIGHT - SPRITE_HEIGHT) \div 2

(* Key bindings (input_config.h): SDL scancodes, and SDL keycodes for quit *)
KEY_MOVE_UP == 82
KEY_MOVE_DOWN == 81
KEY_MOVE_LEFT == 80
KEY_MOVE_RIGHT == 79
KEY_MOVE_UP_ALT == 26
KEY_MOVE_DOWN_ALT == 22
KEY_MOVE_LEFT_ALT == 4
KEY_MOVE_RIGHT_ALT == 7
KEY_CAM_UP == 12
KEY_CAM_DOWN == 14
KEY_CAM_LEFT == 13
KEY_CAM_RIGHT == 15
KEY_QUIT == 27
KEY_QUIT_ALT == 113
KEY_DEBUG_TOGGLE == 19
KEY_STRESS_TEST == 23

(* The scancodes the engine ever queries *)
BoundKeys ==
    { KEY_MOVE_UP, KEY_MOVE_DOWN, KEY_MOVE_LEFT, KEY_MOVE_RIGHT,
      KEY_MOVE_UP_ALT, KEY_MOVE_DOWN_ALT, KEY_MOVE_LEFT_ALT, KEY_MOVE_RIGHT_ALT,
      KEY_CAM_UP, KEY_CAM_DOWN, KEY_CAM_LEFT, KEY_CAM_RIGHT,
      KEY_DEBUG_TOGGLE, KEY_STRESS_TEST }

(* ------------------------------------------------------------------ *)
(* Bounds of the model                                                 *)
(* ------------------------------------------------------------------ *)
(* events drained in one frame *)
MaxEvents == 2
(* sprites in the store of RenderSpec *)
MaxSprites == 3
(* decoder invocations explored in TextureSpec *)
MaxDecodeCalls == 2
(* saturation of the per-hold toggle counter *)
MaxHoldToggles == 3

(* stress batches spawned in a run *)
MaxBatches == 2

(* game_update calls made on the store *)
MaxStressTicks == 2

(* game_update calls made under held keys *)
MaxUpdateTicks == 2

(* game_update calls made in single precision *)
MaxFloatTicks == 2

(* input_update calls made while the keyboard stays as it is *)
MaxInputCalls == 3

(* game_update calls made under held pan keys *)
MaxPanTicks == 3

(* game_update calls made between engine_init and engine_cleanup *)
MaxFrameTicks == 1

(* frames followed on the platform whose user walks the player *)
MaxFrames == 2

(* frames whose time is followed in single precision *)
MaxClockFrames == 3

(* The platform the loop runs on: the frame durations SDL_GetTicks can
   measure (in milliseconds) and the events SDL can deliver.  Two platforms
   are explored without limit: one with many frame durations and a user who
   only closes the window, one with few frame durations and a user who works
   the two toggle keys and the two quit keys.  A third one, with a user who
   works the movement keys, is followed for MaxFrames frames, since a walking
   player passes through thousands of positions. *)
QuitEvent == [type |-> "SDL_QUIT", scancode |-> 0, sym |-> 0]
MouseEvent == [type |-> "SDL_MOUSEMOTION", scancode |-> 0, sym |-> 0]

KeyEvents ==
    { [type |-> "SDL_KEYDOWN", scancode |-> KEY_DEBUG_TOGGLE, sym |-> 112],
      [type |-> "SDL_KEYUP", scancode |-> KEY_DEBUG_TOGGLE, sym |-> 112],
      [type |-> "SDL_KEYDOWN", scancode |-> KEY_STRESS_TEST, sym |-> 116],
      [type |-> "SDL_KEYUP", scancode |-> KEY_STRESS_TEST, sym |-> 116],
      [type |-> "SDL_KEYDOWN", scancode |-> 41, sym |-> KEY_QUIT],
      [type |-> "SDL_KEYDOWN", scancode |-> 20, sym |-> KEY_QUIT_ALT],
      [type |-> "SDL_KEYUP", scancode |-> 41, sym |-> KEY_QUIT] }

TimingPlatform ==
    [delta_ms |-> {0, 10, 16, 25, 100, 101, 300, 5000},
     events |-> {QuitEvent, MouseEvent},
     limited |-> FALSE]

InputPlatform ==
    [delta_ms |-> {0, 25, 100},
     events |-> {QuitEvent, MouseEvent} \cup KeyEvents,
     limited |-> FALSE]

(* both keys of the horizontal axis and both of the vertical one go down,
   one of them comes up again *)
MoveKeyEvents ==
    { [type |-> "SDL_KEYDOWN", scancode |-> KEY_MOVE_RIGHT, sym |-> 0],
      [type |-> "SDL_KEYUP", scancode |-> KEY_MOVE_RIGHT, sym |-> 0],
      [type |-> "SDL_KEYDOWN", scancode |-> KEY_MOVE_LEFT_ALT, sym |-> 0],
      [type |-> "SDL_KEYDOWN", scancode |-> KEY_MOVE_DOWN_ALT, sym |-> 0],
      [type |-> "SDL_KEYDOWN", scancode |-> KEY_MOVE_UP, sym |-> 0] }

MovePlatform ==
    [delta_ms |-> {10, 40},
     events |-> {QuitEvent} \cup MoveKeyEvents,
     limited |-> TRUE]

Platforms == {TimingPlatform, InputPlatform}

EventBatches(pool) == UNION { [1..n -> pool] : n \in 0..MaxEvents }

VARIABLES
    (* the platform of this run *)
    platform,
    (* engine_run and game_state_t *)
    pc, running, accumulator, delta_time,
    current, previous,
    debug_enabled, stress_test_active, stress_test_base_index, sprite_count,
    camera, player,
    (* history of the current frame *)
    measured, acc_start, acc_before_updates, frame_log, frame_updates,
    update_dts, end_current, hold_toggles,
    (* the sprite store seen by engine_render and what it drew *)
    sprites, draw_order, presented,
    (* game->background, the textures SDL holds, the draw calls issued *)
    background, textures, draw_calls,
    (* texture_manager_t and the decoder *)
    tm_count, tm_entries, decode_calls, next_texture, destroyed,
    first_handle, last_call,
    (* history of the run: frames begun where their number is limited, frame time
       accumulated and not yet handed to game_update, events the last drain
       left in SDL's queue, whether the platform has delivered a quit signal *)
    frames, unsimulated, pending, quit_seen

histVars == << frames, unsimulated, pending, quit_seen >>

HistIdle ==
    frames = 0 /\ unsimulated = 0 /\ pending = << >> /\ quit_seen = FALSE

loopVars ==
    << platform, histVars, pc, running, accumulator, delta_time, current, previous,
       debug_enabled, stress_test_active, stress_test_base_index,
       camera, player, measured, acc_start, acc_before_updates, frame_log,
       frame_updates, update_dts, end_current, hold_toggles >>

gfxVars == << background, textures, draw_calls >>

renderVars == << sprites, draw_order, presented, gfxVars >>

texVars ==
    << tm_count, tm_entries, decode_calls, next_texture, destroyed,
       first_handle, last_call >>

vars == << loopVars, sprite_count, renderVars, texVars >>

Min(a, b) == IF a < b THEN a ELSE b

(* the specifications that follow textures by their handles only keep no
   background, no texture attributes and no draw calls *)
GfxIdle == background = 0 /\ textures = << >> /\ draw_calls = << >>

(* ------------------------------------------------------------------ *)
(* Input tracker (input.c)                                             *)
(* ------------------------------------------------------------------ *)
(* SDL_GetKeyboardState reports SDL_NUM_SCANCODES keys, which is 512 *)
num_keys == INPUT_MAX_KEYS

AllUp == [k \in BoundKeys |-> FALSE]

(* input_update with the copy loop never entered *)
input_update_NoCopy(cur, prev) == prev

(* a tracker that takes a call finding nothing new for a fresh start and
   clears its copy *)
input_update_ClearsOnRepeat(cur, prev) ==
    IF cur = prev THEN [k \in BoundKeys |-> FALSE] ELSE cur

(* input_update: previous[i] = current[i] for i < num_keys, i < INPUT_MAX_KEYS *)
input_update(cur, prev) ==
    [k \in BoundKeys |->
        IF k < num_keys /\ k < INPUT_MAX_KEYS THEN cur[k] ELSE prev[k]]

input_key_down(k) == current[k]

(* input_key_pressed reading the held state only *)
input_key_pressed_Held(k) == current[k]

input_key_pressed(k) == current[k] /\ ~previous[k]

input_key_released(k) == ~current[k] /\ previous[k]

(* ------------------------------------------------------------------ *)
(* Platform events                                                     *)
(* ------------------------------------------------------------------ *)
(* SDL rewrites its live keyboard array while events are pumped *)
RECURSIVE PumpKeyboard(_, _)
PumpKeyboard(cur, evs) ==
    IF evs = << >> THEN cur
    ELSE LET e == Head(evs)
             nxt == IF e.scancode \in BoundKeys /\ e.type = "SDL_KEYDOWN"
                        THEN [cur EXCEPT ![e.scancode] = TRUE]
                    ELSE IF e.scancode \in BoundKeys /\ e.type = "SDL_KEYUP"
                        THEN [cur EXCEPT ![e.scancode] = FALSE]
                    ELSE cur
         IN PumpKeyboard(nxt, Tail(evs))

(* the codes SDL gives the two quit keys of the controls list *)
SDLK_ESCAPE == 27
SDLK_q == 113

(* a window-close event or a key-down of ESC or Q *)
QuitSignal(e) ==
    \/ e.type = "SDL_QUIT"
    \/ e.type = "SDL_KEYDOWN" /\ e.sym \in {SDLK_ESCAPE, SDLK_q}

(* the switch taking a quit key's release for a quit as well *)
StopsEngine_OnKeyUpToo(e) ==
    \/ e.type = "SDL_QUIT"
    \/ /\ e.type \in {"SDL_KEYDOWN", "SDL_KEYUP"}
       /\ (e.sym = KEY_QUIT \/ e.sym = KEY_QUIT_ALT)

(* the cases of the switch that assign game->running = false *)
StopsEngine(e) ==
    \/ e.type = "SDL_QUIT"
    \/ /\ e.type = "SDL_KEYDOWN"
       /\ (e.sym = KEY_QUIT \/ e.sym = KEY_QUIT_ALT)

(* engine_handle_events: the while (SDL_PollEvent) switch *)
RECURSIVE engine_handle_events(_, _)
engine_handle_events(run, evs) ==
    IF evs = << >> THEN run
    ELSE LET r == IF StopsEngine(Head(evs)) THEN FALSE ELSE run
         IN engine_handle_events(r, Tail(evs))

(* what while (SDL_PollEvent(&event)) leaves in the queue: the loop has no
   break and no return, it ends when SDL_PollEvent finds the queue empty *)
RECURSIVE EventsLeft(_)
EventsLeft(evs) ==
    IF evs = << >> THEN << >> ELSE EventsLeft(Tail(evs))

(* ------------------------------------------------------------------ *)
(* Game logic (game_logic.c)                                           *)
(* ------------------------------------------------------------------ *)
(* the four tests in the opposite order, so that up and left win *)
game_process_input_UpLeftWins(p) ==
    LET vy1 == IF input_key_down(KEY_MOVE_DOWN) \/ input_key_down(KEY_MOVE_DOWN_ALT)
                  THEN SPRITE_SPEED ELSE 0
        vy2 == IF input_key_down(KEY_MOVE_UP) \/ input_key_down(KEY_MOVE_UP_ALT)
                  THEN 0 - SPRITE_SPEED ELSE vy1
        vx1 == IF input_key_down(KEY_MOVE_RIGHT) \/ input_key_down(KEY_MOVE_RIGHT_ALT)
                  THEN SPRITE_SPEED ELSE 0
        vx2 == IF input_key_down(KEY_MOVE_LEFT) \/ input_key_down(KEY_MOVE_LEFT_ALT)
                  THEN 0 - SPRITE_SPEED ELSE vx1
    IN [p EXCEPT !.vel_x = vx2, !.vel_y = vy2]

(* game_process_input: the velocity is reset, then set by four tests *)
game_process_input(p) ==
    LET vy1 == IF input_key_down(KEY_MOVE_UP) \/ input_key_down(KEY_MOVE_UP_ALT)
                  THEN 0 - SPRITE_SPEED ELSE 0
        vy2 == IF input_key_down(KEY_MOVE_DOWN) \/ input_key_down(KEY_MOVE_DOWN_ALT)
                  THEN SPRITE_SPEED ELSE vy1
        vx1 == IF input_key_down(KEY_MOVE_LEFT) \/ input_key_down(KEY_MOVE_LEFT_ALT)
                  THEN 0 - SPRITE_SPEED ELSE 0
        vx2 == IF input_key_down(KEY_MOVE_RIGHT) \/ input_key_down(KEY_MOVE_RIGHT_ALT)
                  THEN SPRITE_SPEED ELSE vx1
    IN [p EXCEPT !.vel_x = vx2, !.vel_y = vy2]

(* camera pan of game_update *)
CameraPan(cam, dt) ==
    LET y1 == IF input_key_down(KEY_CAM_UP) THEN cam.y - CAMERA_SPEED * dt ELSE cam.y
        y2 == IF input_key_down(KEY_CAM_DOWN) THEN y1 + CAMERA_SPEED * dt ELSE y1
        x1 == IF input_key_down(KEY_CAM_LEFT) THEN cam.x - CAMERA_SPEED * dt ELSE cam.x
        x2 == IF input_key_down(KEY_CAM_RIGHT) THEN x1 + CAMERA_SPEED * dt ELSE x1
    IN [x |-> x2, y |-> y2]

(* player integration of game_update *)
Integrate(p, dt) ==
    [p EXCEPT !.x = p.x + p.vel_x * dt, !.y = p.y + p.vel_y * dt]

(* a sprite left of or above the region brought in by a window's width or
   height instead of being put on the edge *)
ClampToCamera_Wraps(p, cam) ==
    LET cam_left == cam.x
        cam_right == cam.x + Px(WINDOW_WIDTH) - Px(p.width)
        cam_top == cam.y
        cam_bottom == cam.y + Px(WINDOW_HEIGHT) - Px(p.height)
        x1 == IF p.x < cam_left THEN p.x + Px(WINDOW_WIDTH) ELSE p.x
        x2 == IF x1 > cam_right THEN cam_right ELSE x1
        y1 == IF p.y < cam_top THEN p.y + Px(WINDOW_HEIGHT) ELSE p.y
        y2 == IF y1 > cam_bottom THEN cam_bottom ELSE y1
    IN [p EXCEPT !.x = x2, !.y = y2]

(* visible-region clamp of game_update *)
ClampToCamera(p, cam) ==
    LET cam_left == cam.x
        cam_right == cam.x + Px(WINDOW_WIDTH) - Px(p.width)
        cam_top == cam.y
        cam_bottom == cam.y + Px(WINDOW_HEIGHT) - Px(p.height)
        x1 == IF p.x < cam_left THEN cam_left ELSE p.x
        x2 == IF x1 > cam_right THEN cam_right ELSE x1
        y1 == IF p.y < cam_top THEN cam_top ELSE p.y
        y2 == IF y1 > cam_bottom THEN cam_bottom ELSE y1
    IN [p EXCEPT !.x = x2, !.y = y2]

(* ------------------------------------------------------------------ *)
(* Stress test (debug.c); the store is followed by its size            *)
(* ------------------------------------------------------------------ *)
(* the loop condition letting the store overflow by one:
   sprite_count <= SPRITE_MAX_COUNT *)
SpawnContinues_OffByOne(i, count) ==
    i < STRESS_TEST_SPRITE_COUNT /\ count <= SPRITE_MAX_COUNT

(* i < STRESS_TEST_SPRITE_COUNT && game->sprite_count < SPRITE_MAX_COUNT *)
SpawnContinues(i, count) ==
    i < STRESS_TEST_SPRITE_COUNT /\ count < SPRITE_MAX_COUNT

(* the sprite count the spawn loop ends with, i being the pass it is at *)
RECURSIVE SpawnLoop(_, _)
SpawnLoop(i, count) ==
    IF SpawnContinues(i, count)
        THEN SpawnLoop(i + 1, count + 1)
        ELSE count

(* debug_stress_test_toggle: <<active, base_index, sprite_count>> afterwards *)
debug_stress_test_toggle(active, base, count) ==
    IF active
        THEN << FALSE, base, base >>
        ELSE << TRUE, count, SpawnLoop(0, count) >>

(* ------------------------------------------------------------------ *)
(* engine_run                                                          *)
(* ------------------------------------------------------------------ *)
(* the measured delta used as it is *)
ClampDelta_None(d) == d

(* delta_time = (current_time - last_time) / 1000.0f, capped *)
ClampDelta(d) == IF d > MAX_DELTA_TIME THEN MAX_DELTA_TIME ELSE d

(* accumulator += delta_time, capped *)
Accumulate(acc, d) ==
    IF acc + d > MAX_ACCUMULATOR THEN MAX_ACCUMULATOR ELSE acc + d

(* game_update called with the frame's delta_time *)
UpdateDt_FrameDelta == delta_time

(* the argument of the game_update call *)
UpdateDt == FIXED_TIMESTEP

(* the update loop without its subtraction *)
AfterTick_NoSubtract(acc) == acc

(* accumulator -= FIXED_TIMESTEP *)
AfterTick(acc) == acc - FIXED_TIMESTEP

(* the event drain placed before input_update *)
StepAfter_EventsFirst(step) ==
    CASE step = "measure_delta" -> "engine_handle_events"
      [] step = "engine_handle_events" -> "input_update"
      [] step = "input_update" -> "game_process_input"
      [] step = "game_process_input" -> "toggles"
      [] step = "toggles" -> "accumulate"
      [] step = "accumulate" -> "fixed_update"
      [] step = "engine_render" -> "measure_delta"

(* the order of the statements of one loop iteration *)
StepAfter(step) ==
    CASE step = "measure_delta" -> "input_update"
      [] step = "input_update" -> "engine_handle_events"
      [] step = "engine_handle_events" -> "game_process_input"
      [] step = "game_process_input" -> "toggles"
      [] step = "toggles" -> "accumulate"
      [] step = "accumulate" -> "fixed_update"
      [] step = "engine_render" -> "measure_delta"

ToggleKeys == {KEY_DEBUG_TOGGLE, KEY_STRESS_TEST}

(* while (accumulator >= FIXED_TIMESTEP) { game_update; accumulator -= ... } *)
RECURSIVE UpdateLoop(_, _)
UpdateLoop(acc, n) ==
    IF acc >= FIXED_TIMESTEP THEN UpdateLoop(AfterTick(acc), n + 1)
                             ELSE << n, acc >>

(* the ticks and the remainder of a frame entered with accumulator acc that
   measures raw *)
FrameResult(acc, raw) == UpdateLoop(Accumulate(acc, ClampDelta(raw)), 0)

(* state after engine_init with both asset loads failed over to fallbacks *)
LoopStateOn(platforms) ==
    /\ platform \in platforms
    /\ HistIdle
    /\ pc = "measure_delta"
    /\ running = TRUE
    /\ accumulator = 0
    /\ delta_time = 0
    /\ current = AllUp
    /\ previous = AllUp
    /\ debug_enabled = FALSE
    /\ stress_test_active = FALSE
    /\ stress_test_base_index = 0
    /\ camera = [x |-> 0, y |-> 0]
    /\ player = [x |-> PLAYER_START_X, y |-> PLAYER_START_Y,
                 vel_x |-> 0, vel_y |-> 0,
                 width |-> SPRITE_WIDTH, height |-> SPRITE_HEIGHT]
    /\ measured = 0
    /\ acc_start = 0
    /\ acc_before_updates = 0
    /\ frame_log = << >>
    /\ frame_updates = 0
    /\ update_dts = {}
    /\ end_current = AllUp
    /\ hold_toggles = [k \in ToggleKeys |-> 0]

LoopState0 == LoopStateOn(Platforms)

(* engine_init leaves the player and the demo sprite in the store *)
LoopInit == LoopState0 /\ sprite_count = 2

(* a loop that starts its next frame whatever game->running says *)
MeasureDelta_IgnoresRunning ==
    /\ pc = "measure_delta"
    /\ platform.limited => frames < MaxFrames
    /\ \E ms \in platform.delta_ms :
          /\ measured' = ms * UnitsPerMs
          /\ delta_time' = ClampDelta(ms * UnitsPerMs)
    /\ acc_start' = accumulator
    /\ frame_log' = << "measure_delta" >>
    /\ frame_updates' = 0
    /\ pc' = StepAfter("measure_delta")
    /\ UNCHANGED << running, accumulator, current, previous, debug_enabled,
                    stress_test_active, stress_test_base_index, sprite_count,
                    camera, player, acc_before_updates, update_dts,
                    end_current, hold_toggles >>
    /\ frames' = IF platform.limited THEN frames + 1 ELSE frames
    /\ UNCHANGED << platform, unsimulated, pending, quit_seen, renderVars,
                    texVars >>

(* while (game->running): measure the frame time and clamp it *)
MeasureDelta ==
    /\ pc = "measure_delta"
    /\ running
    /\ platform.limited => frames < MaxFrames
    /\ \E ms \in platform.delta_ms :
          /\ measured' = ms * UnitsPerMs
          /\ delta_time' = ClampDelta(ms * UnitsPerMs)
    /\ acc_start' = accumulator
    /\ frame_log' = << "measure_delta" >>
    /\ frame_updates' = 0
    /\ pc' = StepAfter("measure_delta")
    /\ UNCHANGED << running, accumulator, current, previous, debug_enabled,
                    stress_test_active, stress_test_base_index, sprite_count,
                    camera, player, acc_before_updates, update_dts,
                    end_current, hold_toggles >>
    /\ frames' = IF platform.limited THEN frames + 1 ELSE frames
    /\ UNCHANGED << platform, unsimulated, pending, quit_seen, renderVars,
                    texVars >>

(* the loop condition fails: engine_run returns *)
ExitLoop ==
    /\ pc = "measure_delta"
    /\ ~running
    /\ pc' = "returned"
    /\ UNCHANGED << running, accumulator, delta_time, current, previous,
                    debug_enabled, stress_test_active, stress_test_base_index,
                    sprite_count, camera, player, measured, acc_start,
                    acc_before_updates, frame_log, frame_updates, update_dts,
                    end_current, hold_toggles >>
    /\ UNCHANGED << platform, histVars, renderVars, texVars >>

InputUpdate ==
    /\ pc = "input_update"
    /\ previous' = input_update(current, previous)
    /\ frame_log' = Append(frame_log, "input_update")
    /\ pc' = StepAfter("input_update")
    /\ UNCHANGED << running, accumulator, delta_time, current, debug_enabled,
                    stress_test_active, stress_test_base_index, sprite_count,
                    camera, player, measured, acc_start, acc_before_updates,
                    frame_updates, update_dts, end_current, hold_toggles >>
    /\ UNCHANGED << platform, histVars, renderVars, texVars >>

(* an event drain that leaves engine_run as soon as it has cleared running *)
HandleEvents_ReturnsOnQuit ==
    /\ pc = "engine_handle_events"
    /\ \E evs \in EventBatches(platform.events) :
          /\ current' = PumpKeyboard(current, evs)
          /\ running' = engine_handle_events(running, evs)
          /\ pending' = EventsLeft(evs)
          /\ quit_seen' = (quit_seen \/ \E i \in 1..Len(evs) : QuitSignal(evs[i]))
    /\ frame_log' = Append(frame_log, "engine_handle_events")
    /\ pc' = IF running' THEN StepAfter("engine_handle_events") ELSE "returned"
    /\ UNCHANGED << accumulator, delta_time, previous, debug_enabled,
                    stress_test_active, stress_test_base_index, sprite_count,
                    camera, player, measured, acc_start, acc_before_updates,
                    frame_updates, update_dts, end_current, hold_toggles >>
    /\ UNCHANGED << platform, frames, unsimulated, renderVars, texVars >>

(* engine_handle_events(game), the keyboard rewritten by the same pump *)
HandleEvents ==
    /\ pc = "engine_handle_events"
    /\ \E evs \in EventBatches(platform.events) :
          /\ current' = PumpKeyboard(current, evs)
          /\ running' = engine_handle_events(running, evs)
          /\ pending' = EventsLeft(evs)
          /\ quit_seen' = (quit_seen \/ \E i \in 1..Len(evs) : QuitSignal(evs[i]))
    /\ frame_log' = Append(frame_log, "engine_handle_events")
    /\ pc' = StepAfter("engine_handle_events")
    /\ UNCHANGED << accumulator, delta_time, previous, debug_enabled,
                    stress_test_active, stress_test_base_index, sprite_count,
                    camera, player, measured, acc_start, acc_before_updates,
                    frame_updates, update_dts, end_current, hold_toggles >>
    /\ UNCHANGED << platform, frames, unsimulated, renderVars, texVars >>

ProcessInput ==
    /\ pc = "game_process_input"
    /\ player' = game_process_input(player)
    /\ frame_log' = Append(frame_log, "game_process_input")
    /\ pc' = StepAfter("game_process_input")
    /\ UNCHANGED << running, accumulator, delta_time, current, previous,
                    debug_enabled, stress_test_active, stress_test_base_index,
                    sprite_count, camera, measured, acc_start,
                    acc_before_updates, frame_updates, update_dts, end_current,
                    hold_toggles >>
    /\ UNCHANGED << platform, histVars, renderVars, texVars >>

(* the two edge-triggered toggles of the frame *)
Toggles ==
    /\ pc = "toggles"
    /\ debug_enabled' =
          IF input_key_pressed(KEY_DEBUG_TOGGLE) THEN ~debug_enabled
                                                 ELSE debug_enabled
    /\ LET st == IF input_key_pressed(KEY_STRESS_TEST)
                    THEN debug_stress_test_toggle(stress_test_active,
                             stress_test_base_index, sprite_count)
                    ELSE << stress_test_active, stress_test_base_index,
                            sprite_count >>
       IN /\ stress_test_active' = st[1]
          /\ stress_test_base_index' = st[2]
          /\ sprite_count' = st[3]
    /\ hold_toggles' =
          [k \in ToggleKeys |->
              IF ~current[k] THEN 0
              ELSE LET flipped ==
                          IF k = KEY_DEBUG_TOGGLE
                              THEN debug_enabled' # debug_enabled
                              ELSE stress_test_active' # stress_test_active
                   IN Min(hold_toggles[k] + (IF flipped THEN 1 ELSE 0),
                          MaxHoldToggles)]
    /\ frame_log' = Append(frame_log, "toggles")
    /\ pc' = StepAfter("toggles")
    /\ UNCHANGED << running, accumulator, delta_time, current, previous,
                    camera, player, measured, acc_start, acc_before_updates,
                    frame_updates, update_dts, end_current >>
    /\ UNCHANGED << platform, histVars, renderVars, texVars >>

AccumulateStep ==
    /\ pc = "accumulate"
    /\ accumulator' = Accumulate(accumulator, delta_time)
    /\ acc_before_updates' = accumulator'
    /\ frame_log' = Append(frame_log, "accumulate")
    /\ pc' = StepAfter("accumulate")
    /\ UNCHANGED << running, delta_time, current, previous, debug_enabled,
                    stress_test_active, stress_test_base_index, sprite_count,
                    camera, player, measured, acc_start, frame_updates,
                    update_dts, end_current, hold_toggles >>
    /\ unsimulated' = unsimulated + delta_time
    /\ UNCHANGED << platform, frames, pending, quit_seen, renderVars, texVars >>

(* the clamp made against the camera as it was before the tick's pan *)
game_update_ClampsBeforePan(dt) ==
    /\ camera' = CameraPan(camera, dt)
    /\ player' = ClampToCamera(Integrate(player, dt), camera)
    /\ update_dts' = update_dts \cup {dt}

(* game_update(game, dt): pan, integrate, clamp with this tick's camera *)
game_update(dt) ==
    /\ camera' = CameraPan(camera, dt)
    /\ player' = ClampToCamera(Integrate(player, dt), camera')
    /\ update_dts' = update_dts \cup {dt}

(* one pass of while (accumulator >= FIXED_TIMESTEP) *)
FixedUpdate ==
    /\ pc = "fixed_update"
    /\ accumulator >= FIXED_TIMESTEP
    /\ game_update(UpdateDt)
    /\ accumulator' = AfterTick(accumulator)
    /\ frame_updates' = frame_updates + 1
    /\ frame_log' = Append(frame_log, "game_update")
    /\ UNCHANGED << pc, running, delta_time, current, previous, debug_enabled,
                    stress_test_active, stress_test_base_index, sprite_count,
                    measured, acc_start, acc_before_updates, end_current,
                    hold_toggles >>
    /\ unsimulated' = unsimulated - FIXED_TIMESTEP
    /\ UNCHANGED << platform, frames, pending, quit_seen, renderVars, texVars >>

(* the update loop is left and the frame is rendered *)
RenderFrame ==
    /\ pc = "fixed_update"
    /\ accumulator < FIXED_TIMESTEP
    /\ frame_log' = Append(frame_log, "engine_render")
    /\ end_current' = current
    /\ pc' = StepAfter("engine_render")
    /\ UNCHANGED << running, accumulator, delta_time, current, previous,
                    debug_enabled, stress_test_active, stress_test_base_index,
                    sprite_count, camera, player, measured, acc_start,
                    acc_before_updates, frame_updates, update_dts,
                    hold_toggles >>
    /\ UNCHANGED << platform, histVars, renderVars, texVars >>

(* ------------------------------------------------------------------ *)
(* engine_render: the bucketed z pass                                  *)
(* ------------------------------------------------------------------ *)
(* the last layer of for (z = 0; z <= 100; z++) *)
Z_INDEX_MAX == 100

(* z_index is a plain int: values inside, on the edges of and outside the
   layers the pass walks *)
ZValues == {0 - 1, 0, 40, 50, Z_INDEX_MAX, Z_INDEX_MAX + 1}

SpriteStores ==
    UNION { [1..n -> [z_index : ZValues]] : n \in 0..MaxSprites }

(* for (i = 0; i < sprite_count; i++) if (spr->z_index == z) draw i *)
RECURSIVE ZLayer(_, _, _, _)
ZLayer(store, count, z, i) ==
    IF i >= count THEN << >>
    ELSE (IF store[i + 1].z_index = z THEN << i >> ELSE << >>)
         \o ZLayer(store, count, z, i + 1)

(* the z loop stopping one layer early: z < 100 *)
RECURSIVE ZPass_StopsEarly(_, _, _)
ZPass_StopsEarly(store, count, z) ==
    IF z >= Z_INDEX_MAX THEN << >>
    ELSE ZLayer(store, count, z, 0) \o ZPass_StopsEarly(store, count, z + 1)

(* for (z = ...; z <= 100; z++) *)
RECURSIVE ZPass(_, _, _)
ZPass(store, count, z) ==
    IF z > Z_INDEX_MAX THEN << >>
    ELSE ZLayer(store, count, z, 0) \o ZPass(store, count, z + 1)

(* the indices engine_render draws, in order *)
RenderOrder(store, count) == ZPass(store, count, 0)

EngineRender ==
    /\ draw_order' = RenderOrder(sprites, sprite_count)
    /\ presented' = TRUE
    /\ UNCHANGED << sprites, sprite_count, gfxVars, loopVars, texVars >>

(* ------------------------------------------------------------------ *)
(* sprite_sort_by_z: quicksort of the sprite indices (sprite.c)        *)
(* ------------------------------------------------------------------ *)
(* indices and positions are counted from 0 as in the C arrays *)
ZOf(store, indices, pos) == store[indices[pos + 1] + 1].z_index

SwapAt(indices, a, b) ==
    [indices EXCEPT ![a + 1] = indices[b + 1], ![b + 1] = indices[a + 1]]

(* for (j = low; j < high; j++) if (z <= pivot_z) { i++; swap(i, j); } *)
RECURSIVE PartitionLoop(_, _, _, _, _, _)
PartitionLoop(store, indices, high, pivot_z, i, j) ==
    IF j >= high THEN [indices |-> indices, i |-> i]
    ELSE IF ZOf(store, indices, j) <= pivot_z
        THEN PartitionLoop(store, SwapAt(indices, i + 1, j), high, pivot_z,
                           i + 1, j + 1)
        ELSE PartitionLoop(store, indices, high, pivot_z, i, j + 1)

(* partition: the pivot is the last element of the range *)
partition(store, indices, low, high) ==
    LET r == PartitionLoop(store, indices, high, ZOf(store, indices, high),
                           low - 1, low)
    IN [indices |-> SwapAt(r.indices, r.i + 1, high), pivot |-> r.i + 1]

RECURSIVE quicksort(_, _, _, _)
quicksort(store, indices, low, high) ==
    IF low < high
        THEN LET p == partition(store, indices, low, high)
                 left == quicksort(store, p.indices, low, p.pivot - 1)
             IN quicksort(store, left, p.pivot + 1, high)
        ELSE indices

(* sprite_sort_by_z: what it leaves in render_order[0 .. count-1]; with
   count <= 0 it writes nothing *)
sprite_sort_by_z(store, count) ==
    IF count <= 0 THEN << >>
    ELSE quicksort(store, [k \in 1..count |-> k - 1], 0, count - 1)

SpriteSortByZ ==
    /\ last_call' = [op |-> "sprite_sort_by_z", count |-> sprite_count,
                     render_order |-> sprite_sort_by_z(sprites, sprite_count)]
    /\ UNCHANGED << tm_count, tm_entries, decode_calls, next_texture,
                    destroyed, first_handle >>
    /\ UNCHANGED << sprites, sprite_count, draw_order, presented, gfxVars,
                    loopVars >>

(* ------------------------------------------------------------------ *)
(* Texture manager (texture.c)                                         *)
(* ------------------------------------------------------------------ *)
NULL == 0
NotFound == 0 - 1

EmptyEntry == [path |-> << >>, texture |-> NULL, width |-> 0, height |-> 0]

(* paths are strings of character codes *)
Rep(c, n) == [i \in 1..n |-> c]
PathLower == << 97 >>
PathUpper == << 65 >>
PathLong127 == Rep(120, TEXTURE_PATH_MAX_LEN - 1)
PathLong128a == PathLong127 \o << 97 >>
Filler(i) == << 102, i >>

Paths == { PathLower, PathUpper, PathLong127, PathLong128a, Filler(1) }

(* what IMG_LoadTexture and SDL_QueryTexture can report for a file *)
DecoderResults ==
    { [ok |-> FALSE, width |-> 0, height |-> 0],
      [ok |-> TRUE, width |-> 64, height |-> 64],
      [ok |-> TRUE, width |-> 800, height |-> 600] }

(* caches that earlier loads of distinct short paths have filled *)
PrefillCounts == {0, TEXTURE_MAX_ENTRIES - 1, TEXTURE_MAX_ENTRIES}

(* strncpy(entry->path, path, MAX_LEN - 1); entry->path[MAX_LEN - 1] = 0 *)
StoredPath(path) ==
    SubSeq(path, 1, Min(Len(path), TEXTURE_PATH_MAX_LEN - 1))

(* the comparison stopping at the end of the stored key, as strncmp would *)
RECURSIVE FindFrom_MatchesPrefix(_, _, _, _)
FindFrom_MatchesPrefix(entries, count, path, i) ==
    IF i >= count THEN NotFound
    ELSE IF /\ Len(entries[i + 1].path) <= Len(path)
            /\ SubSeq(path, 1, Len(entries[i + 1].path)) = entries[i + 1].path
         THEN i
    ELSE FindFrom_MatchesPrefix(entries, count, path, i + 1)

(* for (i = 0; i < count; i++) if (strcmp(entries[i].path, path) == 0) *)
RECURSIVE FindFrom(_, _, _, _)
FindFrom(entries, count, path, i) ==
    IF i >= count THEN NotFound
    ELSE IF entries[i + 1].path = path THEN i
    ELSE FindFrom(entries, count, path, i + 1)

FindEntry(entries, count, path) == FindFrom(entries, count, path, 0)

(* the capacity check off by one: count > TEXTURE_MAX_ENTRIES *)
CacheFull_OffByOne(count) == count > TEXTURE_MAX_ENTRIES

(* the capacity check of texture_load *)
CacheFull(count) == count >= TEXTURE_MAX_ENTRIES

Call(op, path, ret, w, h, decoded) ==
    [op |-> op, path |-> path, ret |-> ret, out_w |-> w, out_h |-> h,
     decoded |-> decoded, count_before |-> tm_count,
     prior |-> first_handle[path]]

(* the failure branch keeping a textureless entry for the path *)
DecodeFailed_CachesEntry(path) ==
    /\ last_call' = Call("texture_load", path, NULL, 0, 0, TRUE)
    /\ tm_entries' =
          [tm_entries EXCEPT ![tm_count + 1] =
              [path |-> StoredPath(path), texture |-> NULL,
               width |-> 0, height |-> 0]]
    /\ tm_count' = tm_count + 1
    /\ UNCHANGED << next_texture, first_handle >>

(* if (!texture) { fprintf(...); return NULL; } *)
DecodeFailed(path) ==
    /\ last_call' = Call("texture_load", path, NULL, 0, 0, TRUE)
    /\ UNCHANGED << tm_count, tm_entries, next_texture, first_handle >>

texture_load(path) ==
    LET i == FindEntry(tm_entries, tm_count, path) IN
    IF i # NotFound THEN
        /\ last_call' = Call("texture_load", path, tm_entries[i + 1].texture,
                             0, 0, FALSE)
        /\ UNCHANGED << tm_count, tm_entries, decode_calls, next_texture,
                        destroyed, first_handle >>
    ELSE IF CacheFull(tm_count) THEN
        /\ last_call' = Call("texture_load", path, NULL, 0, 0, FALSE)
        /\ UNCHANGED << tm_count, tm_entries, decode_calls, next_texture,
                        destroyed, first_handle >>
    ELSE
        /\ decode_calls < MaxDecodeCalls
        /\ decode_calls' = decode_calls + 1
        /\ \E d \in DecoderResults :
              IF ~d.ok THEN DecodeFailed(path)
              ELSE
                  /\ tm_entries' =
                        [tm_entries EXCEPT ![tm_count + 1] =
                            [path |-> StoredPath(path),
                             texture |-> next_texture,
                             width |-> d.width, height |-> d.height]]
                  /\ tm_count' = tm_count + 1
                  /\ next_texture' = next_texture + 1
                  /\ first_handle' =
                        IF first_handle[path] = NULL
                            THEN [first_handle EXCEPT ![path] = next_texture]
                            ELSE first_handle
                  /\ last_call' = Call("texture_load", path, next_texture,
                                       0, 0, TRUE)
        /\ UNCHANGED destroyed

texture_get(path) ==
    LET i == FindEntry(tm_entries, tm_count, path) IN
    /\ last_call' =
          Call("texture_get", path,
               IF i # NotFound THEN tm_entries[i + 1].texture ELSE NULL,
               0, 0, FALSE)
    /\ UNCHANGED << tm_count, tm_entries, decode_calls, next_texture,
                    destroyed, first_handle >>

texture_get_size(path) ==
    LET i == FindEntry(tm_entries, tm_count, path) IN
    /\ last_call' =
          IF i # NotFound
              THEN Call("texture_get_size", path, 1,
                        tm_entries[i + 1].width, tm_entries[i + 1].height, FALSE)
              ELSE Call("texture_get_size", path, 0, 0, 0, FALSE)
    /\ UNCHANGED << tm_count, tm_entries, decode_calls, next_texture,
                    destroyed, first_handle >>

(* the destroy loop leaving the last entry out: i < count - 1 *)
RECURSIVE CleanupDestroys_SkipsLast(_, _, _)
CleanupDestroys_SkipsLast(entries, count, i) ==
    IF i >= count - 1 THEN << >>
    ELSE (IF entries[i + 1].texture # NULL
             THEN << entries[i + 1].texture >> ELSE << >>)
         \o CleanupDestroys_SkipsLast(entries, count, i + 1)

(* the textures texture_manager_cleanup passes to SDL_DestroyTexture *)
RECURSIVE CleanupDestroys(_, _, _)
CleanupDestroys(entries, count, i) ==
    IF i >= count THEN << >>
    ELSE (IF entries[i + 1].texture # NULL
             THEN << entries[i + 1].texture >> ELSE << >>)
         \o CleanupDestroys(entries, count, i + 1)

texture_manager_cleanup ==
    /\ destroyed' = destroyed \o CleanupDestroys(tm_entries, tm_count, 0)
    /\ tm_entries' =
          [i \in 1..TEXTURE_MAX_ENTRIES |->
              IF i <= tm_count
                  THEN [tm_entries[i] EXCEPT !.texture = NULL, !.path = << >>]
                  ELSE tm_entries[i]]
    /\ tm_count' = 0
    /\ first_handle' = [p \in Paths |-> NULL]
    /\ last_call' = [op |-> "texture_manager_cleanup", path |-> << >>,
                     ret |-> 0, out_w |-> 0, out_h |-> 0, decoded |-> FALSE,
                     count_before |-> tm_count, prior |-> NULL]
    /\ UNCHANGED << decode_calls, next_texture >>

TextureLoad == \E p \in Paths :
    texture_load(p) /\ UNCHANGED << loopVars, sprite_count, renderVars >>

TextureGet == \E p \in Paths :
    texture_get(p) /\ UNCHANGED << loopVars, sprite_count, renderVars >>

TextureGetSize == \E p \in Paths :
    texture_get_size(p) /\ UNCHANGED << loopVars, sprite_count, renderVars >>

TextureManagerCleanup ==
    texture_manager_cleanup /\ UNCHANGED << loopVars, sprite_count, renderVars >>

(* texture_manager_init *)
TexEmpty ==
    /\ tm_count = 0
    /\ tm_entries = [i \in 1..TEXTURE_MAX_ENTRIES |-> EmptyEntry]
    /\ decode_calls = 0
    /\ next_texture = 1
    /\ destroyed = << >>
    /\ first_handle = [p \in Paths |-> NULL]
    /\ last_call = [op |-> "texture_manager_init", path |-> << >>, ret |-> 0,
                    out_w |-> 0, out_h |-> 0, decoded |-> FALSE,
                    count_before |-> 0, prior |-> NULL]

(* texture_manager_init followed by n successful loads of Filler(1..n) *)
TexInit ==
    \E n \in PrefillCounts :
        /\ tm_count = n
        /\ tm_entries =
              [i \in 1..TEXTURE_MAX_ENTRIES |->
                  IF i <= n
                      THEN [path |-> Filler(i), texture |-> i,
                            width |-> SPRITE_WIDTH, height |-> SPRITE_HEIGHT]
                      ELSE EmptyEntry]
        /\ decode_calls = 0
        /\ next_texture = n + 1
        /\ destroyed = << >>
        /\ first_handle =
              [p \in Paths |-> IF p = Filler(1) /\ n >= 1 THEN 1 ELSE NULL]
        /\ last_call = [op |-> "texture_manager_init", path |-> << >>,
                        ret |-> 0, out_w |-> 0, out_h |-> 0, decoded |-> FALSE,
                        count_before |-> 0, prior |-> NULL]

(* ------------------------------------------------------------------ *)
(* Stress test on the sprite store (debug.c, game_logic.c)             *)
(* ------------------------------------------------------------------ *)
(* the store is sprites[0..SPRITE_MAX_COUNT - 1], kept here under the
   indices 1..SPRITE_MAX_COUNT; positions and angles are scaled by
   UnitsPerSecond, origin tells which function filled the slot; the
   position and velocity of sprites[player_index] are the variable player *)
player_index == 0

Sprite(tex, x, y, vx, vy, w, h, z, angle, origin) ==
    [texture |-> tex, x |-> x, y |-> y, vel_x |-> vx, vel_y |-> vy,
     width |-> w, height |-> h, z_index |-> z, angle |-> angle,
     origin |-> origin]

EmptySprite == Sprite(NULL, 0, 0, 0, 0, 0, 0, 0, 0, "none")

(* rand(): the k-th draw of a stream; the streams differ from libc to libc *)
RandStreams == { [start |-> 0, step |-> 0], [start |-> 12345, step |-> 7919] }

Rand(r, k) == (r.start + k * r.step) % 32768

(* texture_create_colored returns NULL when SDL cannot make the surface or
   the texture: for every call, for none, for every other call *)
CreateOutcomes == {"created", "failed", "alternating"}

Created(o, i) == o = "created" \/ (o = "alternating" /\ i % 2 = 0)

(* stress sprites put on the player's layer and above *)
StressZIndex_FromPlayerUp(x) == 50 + (x % 20)

(* spr->z_index = 30 + (rand() % 20) *)
StressZIndex(x) == 30 + (x % 20)

(* the fields the spawn loop gives to the i-th sprite of a batch *)
SpawnedSprite(tex, r, i) ==
    Sprite(tex,
           Px((Rand(r, 9 * i + 3) % (WINDOW_WIDTH * 2)) - WINDOW_WIDTH \div 2),
           Px((Rand(r, 9 * i + 4) % (WINDOW_HEIGHT * 2)) - WINDOW_HEIGHT \div 2),
           (Rand(r, 9 * i + 5) % 100) - 50,
           (Rand(r, 9 * i + 6) % 100) - 50,
           32, 32,
           StressZIndex(Rand(r, 9 * i + 7)),
           Px(Rand(r, 9 * i + 8) % 360),
           "debug_stress_test_toggle")

(* the handle the i-th pass of the spawn loop gets from
   texture_create_colored, tex being the next handle when the loop starts *)
SpawnTexture(tex, o, i) ==
    IF Created(o, i)
        THEN tex + Cardinality({j \in 0..(i - 1) : Created(o, j)})
        ELSE NULL

(* the spawn loop entered with count sprites: the store, the count, the next
   free handle, the slots written and the textures created *)
SpawnBatch(store, count, tex, o, r) ==
    LET after == SpawnLoop(0, count)
        passes == after - count
        made == {i \in 0..(passes - 1) : Created(o, i)}
    IN [store |-> [k \in DOMAIN store |->
                      IF k - 1 >= count /\ k - 1 < after
                          THEN SpawnedSprite(
                                   SpawnTexture(tex, o, k - 1 - count), r,
                                   k - 1 - count)
                          ELSE store[k]],
        count |-> after,
        next |-> tex + Cardinality(made),
        written |-> count..(after - 1),
        created |-> [i \in 1..Cardinality(made) |-> tex + i - 1]]

IsTexture(t) == t # NULL

(* the despawn loop starting one slot late: i = base_index + 1 *)
DespawnDestroys_SkipsFirst(store, base, count) ==
    SelectSeq([k \in 1..(count - base - 1) |-> store[base + 1 + k].texture],
              IsTexture)

(* the despawn loop starting one slot early: i = base_index - 1 *)
DespawnDestroys_StartsBelowBase(store, base, count) ==
    SelectSeq([k \in 1..(count - base + 1) |-> store[base - 1 + k].texture],
              IsTexture)

(* for (i = base_index; i < sprite_count; i++) if (sprites[i].texture)
   SDL_DestroyTexture(sprites[i].texture): the textures destroyed, in order *)
DespawnDestroys(store, base, count) ==
    SelectSeq([k \in 1..(count - base) |-> store[base + k].texture], IsTexture)

(* the spawn keeping the base index it finds *)
SpawnBase_Stale(base, count) == base

(* game->stress_test_base_index = game->sprite_count *)
SpawnBase(base, count) == count

(* what one call of debug_stress_test_toggle did, and what the spawn that
   opened the current batch had done *)
ToggleCall(on, before, written, created, batches) ==
    [op |-> "debug_stress_test_toggle", on |-> on, count_before |-> before,
     written |-> written, created |-> created, batches |-> batches]

(* debug_stress_test_toggle on the store, SDL answering the creations in one
   of the ways outcomes and rand() running one of the streams *)
debug_stress_test_toggle_on(outcomes, streams) ==
    IF stress_test_active THEN
        /\ destroyed' = destroyed \o
              DespawnDestroys(sprites, stress_test_base_index, sprite_count)
        /\ sprite_count' = stress_test_base_index
        /\ stress_test_active' = FALSE
        /\ last_call' = ToggleCall(FALSE, sprite_count, {}, last_call.created,
                                   last_call.batches)
        /\ UNCHANGED << sprites, stress_test_base_index, next_texture >>
    ELSE
        /\ last_call.batches < MaxBatches
        /\ stress_test_base_index' = SpawnBase(stress_test_base_index, sprite_count)
        /\ \E o \in outcomes, r \in streams :
              LET b == SpawnBatch(sprites, sprite_count, next_texture, o, r)
              IN /\ sprites' = b.store
                 /\ sprite_count' = b.count
                 /\ next_texture' = b.next
                 /\ last_call' = ToggleCall(TRUE, sprite_count, b.written,
                                            b.created, last_call.batches + 1)
        /\ stress_test_active' = TRUE
        /\ UNCHANGED destroyed

(* a bounce that turns the sprite round on both axes when it leaves on one *)
MoveSprite_BouncesBothAxes(s, dt) ==
    LET x1 == s.x + s.vel_x * dt
        y1 == s.y + s.vel_y * dt
        out == \/ x1 < 0 - Px(WINDOW_WIDTH) \/ x1 > Px(WINDOW_WIDTH * 2)
               \/ y1 < 0 - Px(WINDOW_HEIGHT) \/ y1 > Px(WINDOW_HEIGHT * 2)
    IN [s EXCEPT !.x = x1, !.y = y1, !.angle = s.angle + 90 * dt,
                 !.vel_x = IF out THEN 0 - s.vel_x ELSE s.vel_x,
                 !.vel_y = IF out THEN 0 - s.vel_y ELSE s.vel_y]

(* the stress loop without its two bounce tests *)
MoveSprite_NoBounce(s, dt) ==
    [s EXCEPT !.x = s.x + s.vel_x * dt, !.y = s.y + s.vel_y * dt,
              !.angle = s.angle + 90 * dt]

(* the body of the stress loop of game_update for one sprite *)
MoveSprite(s, dt) ==
    LET x1 == s.x + s.vel_x * dt
        y1 == s.y + s.vel_y * dt
    IN [s EXCEPT !.x = x1, !.y = y1, !.angle = s.angle + 90 * dt,
                 !.vel_x = IF x1 < 0 - Px(WINDOW_WIDTH) \/ x1 > Px(WINDOW_WIDTH * 2)
                              THEN 0 - s.vel_x ELSE s.vel_x,
                 !.vel_y = IF y1 < 0 - Px(WINDOW_HEIGHT) \/ y1 > Px(WINDOW_HEIGHT * 2)
                              THEN 0 - s.vel_y ELSE s.vel_y]

(* if (stress_test_active) for (i = base_index; i < sprite_count; i++) *)
StressMotion(store, active, base, count, dt) ==
    [i \in DOMAIN store |->
        IF active /\ i - 1 >= base /\ i - 1 < count
            THEN MoveSprite(store[i], dt) ELSE store[i]]

debug_stress_test_toggle_store ==
    debug_stress_test_toggle_on(CreateOutcomes, RandStreams)

(* the call, and what it leaves alone *)
StressToggleOn(outcomes, streams) ==
    /\ debug_stress_test_toggle_on(outcomes, streams)
    /\ UNCHANGED << platform, histVars, pc, running, accumulator, delta_time, current,
                    previous, debug_enabled, camera, player, measured,
                    acc_start, acc_before_updates, frame_log, frame_updates,
                    update_dts, end_current, hold_toggles >>
    /\ UNCHANGED << gfxVars, draw_order, presented, tm_count, tm_entries,
                    decode_calls, first_handle >>

StressToggle == StressToggleOn(CreateOutcomes, RandStreams)

(* game_update on the store, the max_ticks-th call of a run at most *)
StressTick(max_ticks) ==
    /\ frame_updates < max_ticks
    /\ game_update(UpdateDt)
    /\ sprites' = StressMotion(sprites, stress_test_active,
                               stress_test_base_index, sprite_count, UpdateDt)
    /\ frame_updates' = frame_updates + 1
    /\ UNCHANGED << platform, histVars, pc, running, accumulator, delta_time, current,
                    previous, debug_enabled, stress_test_active,
                    stress_test_base_index, sprite_count, measured, acc_start,
                    acc_before_updates, frame_log, end_current, hold_toggles >>
    /\ UNCHANGED << gfxVars, draw_order, presented, texVars >>

StressUpdate == StressTick(MaxStressTicks)

(* stores of engine_init to which the game has added sprites of its own:
   none, as many as leave room for a whole batch, for one sprite less, for
   one sprite, for none *)
InitialCounts ==
    {2, SPRITE_MAX_COUNT - STRESS_TEST_SPRITE_COUNT,
     SPRITE_MAX_COUNT - STRESS_TEST_SPRITE_COUNT + 1,
     SPRITE_MAX_COUNT - 1, SPRITE_MAX_COUNT}

(* the store after engine_init with the fallback textures, n sprites in all *)
InitialStore(n) ==
    [i \in 1..SPRITE_MAX_COUNT |->
        IF i = 1 THEN Sprite(1, PLAYER_START_X, PLAYER_START_Y, 0, 0,
                             SPRITE_WIDTH, SPRITE_HEIGHT, 50, 0, "engine_init")
        ELSE IF i = 2 THEN Sprite(2, Px(100), Px(100), 0, 0, SPRITE_WIDTH,
                                  SPRITE_HEIGHT, 40, Px(45), "engine_init")
        ELSE IF i <= n THEN Sprite(i + 1, 0, 0, 0, 0, SPRITE_WIDTH,
                                   SPRITE_HEIGHT, 0, 0, "game")
        ELSE EmptySprite]

StressInit ==
    /\ LoopState0
    /\ platform = TimingPlatform /\ HistIdle
    /\ draw_order = << >>
    /\ presented = FALSE
    /\ GfxIdle
    /\ tm_count = 0
    /\ tm_entries = [i \in 1..TEXTURE_MAX_ENTRIES |-> EmptyEntry]
    /\ decode_calls = 0
    /\ first_handle = [p \in Paths |-> NULL]
    /\ destroyed = << >>
    /\ \E n \in InitialCounts :
          /\ sprite_count = n
          /\ sprites = InitialStore(n)
          /\ next_texture = n + 2
          /\ last_call = [op |-> "engine_init", on |-> FALSE,
                          count_before |-> n, written |-> {},
                          created |-> << >>, batches |-> 0]

(* ------------------------------------------------------------------ *)
(* Stress sprites that have been under way for a while                 *)
(* ------------------------------------------------------------------ *)
(* rand() streams of three C libraries: the two of RandStreams and one that
   spawns every sprite at (1199, 99) with velocity (49, 49) *)
BounceStreams == RandStreams \cup { [start |-> 1599, step |-> 0] }

(* game_update calls made since the batch was spawned *)
ElapsedTicks == {0, 359, 360, 490, 491}

(* a stress sprite has to travel at least WINDOW_HEIGHT / 2 pixels at no more
   than 50 pixels per second to reach a bound, 360 ticks or more; a sprite
   that has not yet reached one has moved in a straight line, so k ticks of
   MoveSprite leave it here *)
Drifted(s, k) ==
    [s EXCEPT !.x = s.x + k * (s.vel_x * FIXED_TIMESTEP),
              !.y = s.y + k * (s.vel_y * FIXED_TIMESTEP),
              !.angle = s.angle + k * (90 * FIXED_TIMESTEP)]

(* the tests of the two bounce statements, negated *)
InWorldX(s) == ~(s.x < 0 - Px(WINDOW_WIDTH) \/ s.x > Px(WINDOW_WIDTH * 2))
InWorldY(s) == ~(s.y < 0 - Px(WINDOW_HEIGHT) \/ s.y > Px(WINDOW_HEIGHT * 2))

(* engine_init, the stress key, and ticks in which no sprite of the batch
   has left the world yet *)
BounceInit ==
    /\ \E r \in BounceStreams, k \in ElapsedTicks :
          LET n == 2 + STRESS_TEST_SPRITE_COUNT
              store == [i \in 1..SPRITE_MAX_COUNT |->
                           IF i - 1 >= 2 /\ i - 1 < n
                               THEN Drifted(SpawnedSprite(i + 1, r, i - 3), k)
                               ELSE InitialStore(2)[i]]
          IN /\ {i \in 3..n : ~(InWorldX(store[i]) /\ InWorldY(store[i]))} = {}
             /\ sprites = store
             /\ sprite_count = n
             /\ next_texture = n + 2
             /\ last_call = ToggleCall(TRUE, 2, 2..(n - 1),
                                       [i \in 1..STRESS_TEST_SPRITE_COUNT |-> i + 3],
                                       1)
    /\ platform = TimingPlatform /\ HistIdle
    /\ pc = "measure_delta"
    /\ running = TRUE
    /\ accumulator = 0
    /\ delta_time = 0
    /\ current = AllUp
    /\ previous = AllUp
    /\ debug_enabled = FALSE
    /\ stress_test_active = TRUE
    /\ stress_test_base_index = 2
    /\ camera = [x |-> 0, y |-> 0]
    /\ player = [x |-> PLAYER_START_X, y |-> PLAYER_START_Y,
                 vel_x |-> 0, vel_y |-> 0,
                 width |-> SPRITE_WIDTH, height |-> SPRITE_HEIGHT]
    /\ measured = 0
    /\ acc_start = 0
    /\ acc_before_updates = 0
    /\ frame_log = << >>
    /\ frame_updates = 0
    /\ update_dts = {}
    /\ end_current = AllUp
    /\ hold_toggles = [k \in ToggleKeys |-> 0]
    /\ draw_order = << >>
    /\ presented = FALSE
    /\ GfxIdle
    /\ tm_count = 0
    /\ tm_entries = [i \in 1..TEXTURE_MAX_ENTRIES |-> EmptyEntry]
    /\ decode_calls = 0
    /\ first_handle = [p \in Paths |-> NULL]
    /\ destroyed = << >>

(* ------------------------------------------------------------------ *)
(* game_update under held movement and camera keys                     *)
(* ------------------------------------------------------------------ *)
(* the keys SDL reports as held between two frames *)
HeldKeySets ==
    { {},
      {KEY_MOVE_LEFT, KEY_MOVE_UP},
      {KEY_MOVE_RIGHT_ALT, KEY_MOVE_DOWN_ALT},
      {KEY_CAM_RIGHT, KEY_CAM_DOWN, KEY_MOVE_LEFT},
      {KEY_CAM_LEFT, KEY_CAM_UP, KEY_MOVE_RIGHT, KEY_MOVE_DOWN},
      {KEY_MOVE_RIGHT} }

(* what one tick adds to a camera coordinate, to a player coordinate *)
CameraStep == CAMERA_SPEED * FIXED_TIMESTEP
PlayerStep == SPRITE_SPEED * FIXED_TIMESTEP

(* cameras that earlier ticks have panned: not at all; 3 ticks to the left
   and 42 ticks down *)
CameraStarts ==
    { [x |-> 0, y |-> 0], [x |-> 0 - 3 * CameraStep, y |-> 42 * CameraStep] }

(* where earlier ticks have left the player in the visible region: on its
   left or top edge, in the middle, on its right or bottom edge *)
PlayerOffsetsX == {0, PLAYER_START_X, Px(WINDOW_WIDTH - SPRITE_WIDTH)}
PlayerOffsetsY == {0, PLAYER_START_Y, Px(WINDOW_HEIGHT - SPRITE_HEIGHT)}

(* the keyboard snapshot changes between two frames *)
KeyboardChanges ==
    /\ \E held \in HeldKeySets :
          current' = [k \in BoundKeys |-> k \in held]
    /\ UNCHANGED << platform, histVars, pc, running, accumulator, delta_time, previous,
                    debug_enabled, stress_test_active, stress_test_base_index,
                    sprite_count, camera, player, measured, acc_start,
                    acc_before_updates, frame_log, frame_updates, update_dts,
                    end_current, hold_toggles >>
    /\ UNCHANGED << renderVars, texVars >>

(* game_process_input of a frame *)
UpdateProcessInput ==
    /\ player' = game_process_input(player)
    /\ UNCHANGED << platform, histVars, pc, running, accumulator, delta_time, current,
                    previous, debug_enabled, stress_test_active,
                    stress_test_base_index, sprite_count, camera, measured,
                    acc_start, acc_before_updates, frame_log, frame_updates,
                    update_dts, end_current, hold_toggles >>
    /\ UNCHANGED << renderVars, texVars >>

(* one fixed tick of a frame *)
UpdateTick ==
    /\ frame_updates < MaxUpdateTicks
    /\ game_update(UpdateDt)
    /\ frame_updates' = frame_updates + 1
    /\ UNCHANGED << platform, histVars, pc, running, accumulator, delta_time, current,
                    previous, debug_enabled, stress_test_active,
                    stress_test_base_index, sprite_count, measured, acc_start,
                    acc_before_updates, frame_log, end_current, hold_toggles >>
    /\ UNCHANGED << renderVars, texVars >>

(* engine_init, then frames that moved the camera and the player *)
UpdateInit ==
    /\ platform = TimingPlatform /\ HistIdle
    /\ pc = "fixed_update"
    /\ running = TRUE
    /\ accumulator = 0
    /\ delta_time = 0
    /\ current = AllUp
    /\ previous = AllUp
    /\ debug_enabled = FALSE
    /\ stress_test_active = FALSE
    /\ stress_test_base_index = 0
    /\ sprite_count = 2
    /\ camera \in CameraStarts
    /\ \E dx \in PlayerOffsetsX, dy \in PlayerOffsetsY :
          player = [x |-> camera.x + dx, y |-> camera.y + dy,
                    vel_x |-> 0, vel_y |-> 0,
                    width |-> SPRITE_WIDTH, height |-> SPRITE_HEIGHT]
    /\ measured = 0
    /\ acc_start = 0
    /\ acc_before_updates = 0
    /\ frame_log = << >>
    /\ frame_updates = 0
    /\ update_dts = {}
    /\ end_current = AllUp
    /\ hold_toggles = [k \in ToggleKeys |-> 0]
    /\ sprites = << >>
    /\ draw_order = << >>
    /\ presented = FALSE
    /\ GfxIdle
    /\ tm_count = 0
    /\ tm_entries = [i \in 1..TEXTURE_MAX_ENTRIES |-> EmptyEntry]
    /\ decode_calls = 0
    /\ next_texture = 1
    /\ destroyed = << >>
    /\ first_handle = [p \in Paths |-> NULL]
    /\ last_call = [op |-> "texture_manager_init", path |-> << >>, ret |-> 0,
                    out_w |-> 0, out_h |-> 0, decoded |-> FALSE,
                    count_before |-> 0, prior |-> NULL]

(* ------------------------------------------------------------------ *)
(* game_update in IEEE single precision                                *)
(* ------------------------------------------------------------------ *)
(* x, y and the camera are C floats.  Here a float is the integer number
   of 2^-21 it is worth: every float of magnitude 4 to 1024 is such a
   multiple, and so are the smaller ones this section meets.  Each float
   operation is the exact operation followed by rounding to 24 significant
   bits, ties to even (FLT_EVAL_METHOD 0, no contraction). *)
F32(n) == n * 2^21

Abs(n) == IF n < 0 THEN 0 - n ELSE n

(* n / d rounded to the nearest integer, ties to the even one; d > 0 *)
RoundHalfEven(n, d) ==
    LET f == n \div d
        r == n % d
    IN IF 2 * r < d THEN f
       ELSE IF 2 * r > d THEN f + 1
       ELSE IF f % 2 = 0 THEN f ELSE f + 1

(* the spacing of the floats around the magnitude a, in the unit a is
   counted in, for a of more than 24 bits; 1 otherwise *)
RECURSIVE F32Quantum(_)
F32Quantum(a) == IF a < 2^24 THEN 1 ELSE 2 * F32Quantum(a \div 2)

(* rounding toward minus infinity *)
F32Round_Down(n) ==
    LET q == F32Quantum(Abs(n)) IN q * (n \div q)

(* the float nearest to n *)
F32Round(n) ==
    LET q == F32Quantum(Abs(n)) IN q * RoundHalfEven(n, q)

(* FIXED_TIMESTEP = 1.0f / TARGET_FPS, counted in 2^-29 *)
TimestepMantissa == F32Round(RoundHalfEven(2^29, TARGET_FPS))

(* the float speed * FIXED_TIMESTEP for a speed that is a multiple of 4:
   the exact product counted in 2^-27, rounded, then counted in 2^-21 *)
F32TimesTimestep(speed) ==
    F32Round((speed \div 4) * TimestepMantissa) \div 64

F32Add(a, b) == F32Round(a + b)

(* a pan written as an else-if chain, in which down and right win *)
F32CameraPan_DownWins(cam) ==
    LET step == F32TimesTimestep(CAMERA_SPEED)
        y2 == IF input_key_down(KEY_CAM_DOWN) THEN F32Add(cam.y, step)
              ELSE IF input_key_down(KEY_CAM_UP) THEN F32Add(cam.y, 0 - step)
              ELSE cam.y
        x2 == IF input_key_down(KEY_CAM_RIGHT) THEN F32Add(cam.x, step)
              ELSE IF input_key_down(KEY_CAM_LEFT) THEN F32Add(cam.x, 0 - step)
              ELSE cam.x
    IN [x |-> x2, y |-> y2]

(* camera pan of game_update in floats *)
F32CameraPan(cam) ==
    LET step == F32TimesTimestep(CAMERA_SPEED)
        y1 == IF input_key_down(KEY_CAM_UP) THEN F32Add(cam.y, 0 - step)
                                            ELSE cam.y
        y2 == IF input_key_down(KEY_CAM_DOWN) THEN F32Add(y1, step) ELSE y1
        x1 == IF input_key_down(KEY_CAM_LEFT) THEN F32Add(cam.x, 0 - step)
                                              ELSE cam.x
        x2 == IF input_key_down(KEY_CAM_RIGHT) THEN F32Add(x1, step) ELSE x1
    IN [x |-> x2, y |-> y2]

(* player->x += player->vel_x * delta_time, and the same for y *)
F32Integrate(p) ==
    [p EXCEPT !.x = F32Add(p.x, F32TimesTimestep(p.vel_x)),
              !.y = F32Add(p.y, F32TimesTimestep(p.vel_y))]

(* the clamp with its edges computed in floats *)
F32ClampToCamera(p, cam) ==
    LET cam_left == cam.x
        cam_right == F32Add(F32Add(cam.x, F32(WINDOW_WIDTH)), 0 - F32(p.width))
        cam_top == cam.y
        cam_bottom ==
            F32Add(F32Add(cam.y, F32(WINDOW_HEIGHT)), 0 - F32(p.height))
        x1 == IF p.x < cam_left THEN cam_left ELSE p.x
        x2 == IF x1 > cam_right THEN cam_right ELSE x1
        y1 == IF p.y < cam_top THEN cam_top ELSE p.y
        y2 == IF y1 > cam_bottom THEN cam_bottom ELSE y1
    IN [p EXCEPT !.x = x2, !.y = y2]

(* game_update(game, FIXED_TIMESTEP) with the stress test off, the
   max_ticks-th call of a run at most *)
F32Tick(max_ticks) ==
    /\ frame_updates < max_ticks
    /\ camera' = F32CameraPan(camera)
    /\ player' = F32ClampToCamera(F32Integrate(player), camera')
    /\ update_dts' = update_dts \cup {UpdateDt}
    /\ frame_updates' = frame_updates + 1
    /\ UNCHANGED << platform, histVars, pc, running, accumulator, delta_time, current,
                    previous, debug_enabled, stress_test_active,
                    stress_test_base_index, sprite_count, measured, acc_start,
                    acc_before_updates, frame_log, end_current, hold_toggles >>
    /\ UNCHANGED << renderVars, texVars >>

F32GameUpdate == F32Tick(MaxFloatTicks)

(* where the player is after engine_init or after having been clamped to an
   edge of the region of the camera at the origin, in floats *)
F32PlayerStartsX == {F32(0), F32((WINDOW_WIDTH - SPRITE_WIDTH) \div 2),
                     F32(WINDOW_WIDTH - SPRITE_WIDTH)}
F32PlayerStartsY == {F32(0), F32((WINDOW_HEIGHT - SPRITE_HEIGHT) \div 2),
                     F32(WINDOW_HEIGHT - SPRITE_HEIGHT)}

FloatInit ==
    /\ platform = TimingPlatform /\ HistIdle
    /\ pc = "fixed_update"
    /\ running = TRUE
    /\ accumulator = 0
    /\ delta_time = 0
    /\ current = AllUp
    /\ previous = AllUp
    /\ debug_enabled = FALSE
    /\ stress_test_active = FALSE
    /\ stress_test_base_index = 0
    /\ sprite_count = 2
    /\ camera = [x |-> F32(0), y |-> F32(0)]
    /\ \E x0 \in F32PlayerStartsX, y0 \in F32PlayerStartsY :
          player = [x |-> x0, y |-> y0, vel_x |-> 0, vel_y |-> 0,
                    width |-> SPRITE_WIDTH, height |-> SPRITE_HEIGHT]
    /\ measured = 0
    /\ acc_start = 0
    /\ acc_before_updates = 0
    /\ frame_log = << >>
    /\ frame_updates = 0
    /\ update_dts = {}
    /\ end_current = AllUp
    /\ hold_toggles = [k \in ToggleKeys |-> 0]
    /\ sprites = << >>
    /\ draw_order = << >>
    /\ presented = FALSE
    /\ GfxIdle
    /\ TexEmpty

(* ------------------------------------------------------------------ *)
(* The camera under held pan keys, in single precision                 *)
(* ------------------------------------------------------------------ *)
(* the pan keys SDL reports as held between two ticks: none, each one, the
   two opposite pairs, a diagonal, all four *)
PanKeySets ==
    { {}, {KEY_CAM_UP}, {KEY_CAM_DOWN}, {KEY_CAM_LEFT}, {KEY_CAM_RIGHT},
      {KEY_CAM_UP, KEY_CAM_DOWN}, {KEY_CAM_LEFT, KEY_CAM_RIGHT},
      {KEY_CAM_UP, KEY_CAM_RIGHT},
      {KEY_CAM_UP, KEY_CAM_DOWN, KEY_CAM_LEFT, KEY_CAM_RIGHT} }

PanKeysChange ==
    /\ \E held \in PanKeySets :
          /\ current' = [k \in BoundKeys |-> k \in held]
          /\ current' # current
    /\ UNCHANGED << platform, histVars, pc, running, accumulator, delta_time, previous,
                    debug_enabled, stress_test_active, stress_test_base_index,
                    sprite_count, camera, player, measured, acc_start,
                    acc_before_updates, frame_log, frame_updates, update_dts,
                    end_current, hold_toggles >>
    /\ UNCHANGED << renderVars, texVars >>

PanTick == F32Tick(MaxPanTicks)

(* engine_init: the camera at the origin, the player in the middle *)
PanInit ==
    /\ FloatInit
    /\ player.x = F32((WINDOW_WIDTH - SPRITE_WIDTH) \div 2)
    /\ player.y = F32((WINDOW_HEIGHT - SPRITE_HEIGHT) \div 2)

(* ------------------------------------------------------------------ *)
(* world_to_screen (camera.c)                                          *)
(* ------------------------------------------------------------------ *)
(* the float a - b *)
F32Sub(a, b) == F32Round(a - b)

(* the conversion rounding toward minus infinity *)
FloatToInt_Floor(f) == f \div 2^21

(* (int)f for a float f inside the range of int: the fraction is discarded *)
FloatToInt(f) ==
    IF f >= 0 THEN f \div 2^21 ELSE 0 - ((0 - f) \div 2^21)

(* the camera offset left out *)
world_to_screen_IgnoresCamera(cam, world_x, world_y) ==
    [x |-> FloatToInt(world_x), y |-> FloatToInt(world_y)]

(* *screen_x = (int)(world_x - camera->x); *screen_y likewise *)
world_to_screen(cam, world_x, world_y) ==
    [x |-> FloatToInt(F32Sub(world_x, cam.x)),
     y |-> FloatToInt(F32Sub(world_y, cam.y))]

(* world coordinates and camera offsets of the calls: whole and fractional,
   either side of the camera, and a pair whose difference is not a float *)
WorldProbesX ==
    {F32(100), F32(600), F32(0), 0 - F32(3), 0 - (F32(1) \div 2),
     F32(7) \div 2}
WorldProbesY == {F32(80), F32(0), 0 - (F32(5) \div 4)}
CameraProbesX == {F32(50), F32(0), F32(5) \div 2, 1}
CameraProbesY == {F32(20), F32(0), 0 - (F32(1) \div 4)}

WorldToScreen ==
    /\ \E wx \in WorldProbesX, wy \in WorldProbesY :
          last_call' = [op |-> "world_to_screen",
                        world_x |-> wx, world_y |-> wy,
                        screen |-> world_to_screen(camera, wx, wy)]
    /\ UNCHANGED << tm_count, tm_entries, decode_calls, next_texture,
                    destroyed, first_handle >>
    /\ UNCHANGED << loopVars, sprite_count, renderVars >>

ScreenInit ==
    /\ platform = TimingPlatform /\ HistIdle
    /\ pc = "engine_render"
    /\ running = TRUE
    /\ accumulator = 0
    /\ delta_time = 0
    /\ current = AllUp
    /\ previous = AllUp
    /\ debug_enabled = FALSE
    /\ stress_test_active = FALSE
    /\ stress_test_base_index = 0
    /\ sprite_count = 2
    /\ \E cx \in CameraProbesX, cy \in CameraProbesY :
          camera = [x |-> cx, y |-> cy]
    /\ player = [x |-> F32(100), y |-> F32(80), vel_x |-> 0, vel_y |-> 0,
                 width |-> SPRITE_WIDTH, height |-> SPRITE_HEIGHT]
    /\ measured = 0
    /\ acc_start = 0
    /\ acc_before_updates = 0
    /\ frame_log = << >>
    /\ frame_updates = 0
    /\ update_dts = {}
    /\ end_current = AllUp
    /\ hold_toggles = [k \in ToggleKeys |-> 0]
    /\ sprites = << >>
    /\ draw_order = << >>
    /\ presented = FALSE
    /\ GfxIdle
    /\ TexEmpty

(* ------------------------------------------------------------------ *)
(* engine_init and the draw calls of a frame (engine.c, sprite.c)      *)
(* ------------------------------------------------------------------ *)
(* "assets/player.png" and "assets/background.png" *)
PLAYER_TEXTURE_PATH ==
    << 97, 115, 115, 101, 116, 115, 47, 112, 108, 97, 121, 101, 114, 46,
       112, 110, 103 >>
BACKGROUND_TEXTURE_PATH ==
    << 97, 115, 115, 101, 116, 115, 47, 98, 97, 99, 107, 103, 114, 111, 117,
       110, 100, 46, 112, 110, 103 >>

COLOR_BG == << 34, 139, 34 >>
COLOR_PLAYER == << 65, 105, 225 >>
TEST_SPRITE_COLOR == << 255, 100, 100 >>

(* the colour modulation SDL gives a new texture, and the one
   sprite_render_ex leaves *)
ColorModNone == << 255, 255, 255 >>

(* what SDL holds for a texture; its handle is its place in textures *)
DecodedTexture(w, h) ==
    [kind |-> "decoded", width |-> w, height |-> h, colour |-> << >>,
     mod |-> ColorModNone]

SolidTexture(w, h, c) ==
    [kind |-> "solid", width |-> w, height |-> h, colour |-> c,
     mod |-> ColorModNone]

(* texture_manager_init, and no texture created yet *)
NoTextures ==
    [count |-> 0,
     entries |-> [i \in 1..TEXTURE_MAX_ENTRIES |-> EmptyEntry],
     textures |-> << >>,
     decodes |-> 0]

(* texture_load as a function of the cache g and of what the decoder
   reports for the file *)
TextureLoaded(g, path, d) ==
    LET i == FindEntry(g.entries, g.count, path) IN
    IF i # NotFound THEN [g |-> g, ret |-> g.entries[i + 1].texture]
    ELSE IF CacheFull(g.count) THEN [g |-> g, ret |-> NULL]
    ELSE IF ~d.ok THEN [g |-> [g EXCEPT !.decodes = @ + 1], ret |-> NULL]
    ELSE LET t == Len(g.textures) + 1 IN
         [g |-> [g EXCEPT
                   !.entries[g.count + 1] =
                       [path |-> StoredPath(path), texture |-> t,
                        width |-> d.width, height |-> d.height],
                   !.count = @ + 1,
                   !.textures = Append(@, DecodedTexture(d.width, d.height)),
                   !.decodes = @ + 1],
          ret |-> t]

(* texture_create_colored; ok tells whether SDL could create the surface
   and the texture *)
texture_create_colored(g, ok, w, h, c) ==
    IF ok THEN [g |-> [g EXCEPT !.textures = Append(@, SolidTexture(w, h, c))],
                ret |-> Len(g.textures) + 1]
          ELSE [g |-> g, ret |-> NULL]

(* what the platform does during engine_init *)
InitEnvironments ==
    [renderer_ok : BOOLEAN,
     player_file : DecoderResults, player_fallback_ok : BOOLEAN,
     test_ok : BOOLEAN,
     background_file : DecoderResults, background_fallback_ok : BOOLEAN]

(* the fallback of the background made with the size of a sprite *)
BackgroundFallback_SpriteSized(g, ok) ==
    texture_create_colored(g, ok, SPRITE_WIDTH, SPRITE_HEIGHT, COLOR_BG)

(* texture_create_colored(sdl, WINDOW_WIDTH, WINDOW_HEIGHT, COLOR_BG_R, ..) *)
BackgroundFallback(g, ok) ==
    texture_create_colored(g, ok, WINDOW_WIDTH, WINDOW_HEIGHT, COLOR_BG)

(* engine_init: its return value and the fields of game it leaves.
   Positions are floats (F32), angles whole degrees. *)
engine_init(env) ==
    IF ~env.renderer_ok
        THEN [ret |-> FALSE, running |-> FALSE, entered |-> FALSE,
              sprite_count |-> 0, sprites |-> << >>, background |-> NULL,
              g |-> NoTextures]
    ELSE
    LET l1 == TextureLoaded(NoTextures, PLAYER_TEXTURE_PATH, env.player_file)
        f1 == IF l1.ret = NULL
                  THEN texture_create_colored(l1.g, env.player_fallback_ok,
                           SPRITE_WIDTH, SPRITE_HEIGHT, COLOR_PLAYER)
                  ELSE l1
    IN IF f1.ret = NULL
        THEN [ret |-> FALSE, running |-> FALSE, entered |-> TRUE,
              sprite_count |-> 1, sprites |-> << EmptySprite >>,
              background |-> NULL, g |-> f1.g]
    ELSE
    LET t == texture_create_colored(f1.g, env.test_ok, SPRITE_WIDTH,
                                    SPRITE_HEIGHT, TEST_SPRITE_COLOR)
        l2 == TextureLoaded(t.g, BACKGROUND_TEXTURE_PATH, env.background_file)
        f2 == IF l2.ret = NULL
                  THEN BackgroundFallback(l2.g, env.background_fallback_ok)
                  ELSE l2
    IN [ret |-> TRUE, running |-> TRUE, entered |-> TRUE,
        sprite_count |-> 2,
        sprites |->
            << Sprite(f1.ret, F32(WINDOW_WIDTH - SPRITE_WIDTH) \div 2,
                      F32(WINDOW_HEIGHT - SPRITE_HEIGHT) \div 2, 0, 0,
                      SPRITE_WIDTH, SPRITE_HEIGHT, 50, 0, "engine_init"),
               Sprite(t.ret, F32(100), F32(100), 0, 0,
                      SPRITE_WIDTH, SPRITE_HEIGHT, 40, 45, "engine_init") >>,
        background |-> f2.ret, g |-> f2.g]

(* main calls engine_init on a zeroed game_state_t *)
EngineInit ==
    /\ pc = "main"
    /\ \E env \in InitEnvironments :
          LET r == engine_init(env) IN
          /\ pc' = IF r.ret THEN "engine_run" ELSE "init_failed"
          /\ running' = r.running
          /\ sprite_count' = r.sprite_count
          /\ sprites' = r.sprites
          /\ background' = r.background
          /\ textures' = r.g.textures
          /\ tm_count' = r.g.count
          /\ tm_entries' = r.g.entries
          /\ decode_calls' = r.g.decodes
          /\ next_texture' = Len(r.g.textures) + 1
          /\ last_call' = [op |-> "engine_init", ret |-> r.ret, env |-> env,
                           entered |-> r.entered]
    /\ camera' = [x |-> F32(0), y |-> F32(0)]
    /\ debug_enabled' = FALSE
    /\ stress_test_active' = FALSE
    /\ stress_test_base_index' = 0
    /\ UNCHANGED << platform, histVars, accumulator, delta_time, current, previous,
                    player, measured, acc_start, acc_before_updates,
                    frame_log, frame_updates, update_dts, end_current,
                    hold_toggles >>
    /\ UNCHANGED << draw_order, presented, draw_calls, destroyed,
                    first_handle >>

(* a call that reaches the SDL renderer; mod is the colour modulation the
   texture has when it is copied *)
DrawCall(fn, tex, x, y, w, h, mod, angle) ==
    [fn |-> fn, texture |-> tex, x |-> x, y |-> y, w |-> w, h |-> h,
     mod |-> mod, angle |-> angle]

SetTextureColorMod(texs, t, rgb) == [texs EXCEPT ![t].mod = rgb]

(* sprite_render_ex without its closing SDL_SetTextureColorMod *)
ResetColorMod_Skipped(texs, t) == texs

(* SDL_SetTextureColorMod(sprite->texture, 255, 255, 255) *)
ResetColorMod(texs, t) == SetTextureColorMod(texs, t, ColorModNone)

(* sprite_render: the textures and the draw calls it leaves *)
sprite_render(texs, s, cam) ==
    IF s.texture = NULL THEN [textures |-> texs, calls |-> << >>]
    ELSE LET p == world_to_screen(cam, s.x, s.y) IN
         [textures |-> texs,
          calls |-> << DrawCall("SDL_RenderCopy", s.texture, p.x, p.y,
                                s.width, s.height, texs[s.texture].mod, 0) >>]

(* sprite_render_ex with angle and colour rgb *)
sprite_render_ex(texs, s, cam, angle, rgb) ==
    IF s.texture = NULL THEN [textures |-> texs, calls |-> << >>]
    ELSE LET p == world_to_screen(cam, s.x, s.y)
             tinted == SetTextureColorMod(texs, s.texture, rgb)
         IN [textures |-> ResetColorMod(tinted, s.texture),
             calls |-> << DrawCall("SDL_RenderCopyEx", s.texture, p.x, p.y,
                                   s.width, s.height,
                                   tinted[s.texture].mod, angle) >>]

(* show_debug_bounds: engine_init sets it, the stress test clears it *)
ShowDebugBounds(s) == s.origin = "engine_init"

(* the body of the inner loop of engine_render for one sprite.  flip is
   SDL_FLIP_NONE in every sprite the engine makes, which leaves the angle
   to choose the path *)
DrawSprite(texs, s, cam, debug) ==
    LET r == IF s.angle # 0
                 THEN sprite_render_ex(texs, s, cam, s.angle, ColorModNone)
                 ELSE sprite_render(texs, s, cam)
        p == world_to_screen(cam, s.x, s.y)
        bounds == IF debug /\ ShowDebugBounds(s)
                      THEN << DrawCall("debug_draw_rect_rotated", NULL,
                                       p.x, p.y, s.width, s.height,
                                       ColorModNone, s.angle) >>
                      ELSE << >>
    IN [textures |-> r.textures, calls |-> r.calls \o bounds]

(* the pass given up at the first sprite without a texture *)
RECURSIVE DrawSprites_StopsAtMissing(_, _, _, _, _, _)
DrawSprites_StopsAtMissing(order, k, store, texs, cam, debug) ==
    IF k > Len(order) \/ store[order[k] + 1].texture = NULL
        THEN [textures |-> texs, calls |-> << >>]
    ELSE LET d == DrawSprite(texs, store[order[k] + 1], cam, debug)
             rest == DrawSprites_StopsAtMissing(order, k + 1, store,
                                                d.textures, cam, debug)
         IN [textures |-> rest.textures, calls |-> d.calls \o rest.calls]

(* the sprites of the z pass from the k-th visited on *)
RECURSIVE DrawSprites(_, _, _, _, _, _)
DrawSprites(order, k, store, texs, cam, debug) ==
    IF k > Len(order) THEN [textures |-> texs, calls |-> << >>]
    ELSE LET d == DrawSprite(texs, store[order[k] + 1], cam, debug)
             rest == DrawSprites(order, k + 1, store, d.textures, cam, debug)
         IN [textures |-> rest.textures, calls |-> d.calls \o rest.calls]

(* engine_render: clear, background, z pass, present *)
engine_render(texs, bg, store, count, cam, debug) ==
    LET clear == DrawCall("SDL_RenderClear", NULL, 0, 0, 0, 0, COLOR_BG, 0)
        back == IF bg # NULL
                    THEN << DrawCall("SDL_RenderCopy", bg, 0, 0, WINDOW_WIDTH,
                                     WINDOW_HEIGHT, texs[bg].mod, 0) >>
                    ELSE << >>
        pass == DrawSprites(RenderOrder(store, count), 1, store, texs, cam,
                            debug)
        present == DrawCall("SDL_RenderPresent", NULL, 0, 0, 0, 0,
                            ColorModNone, 0)
    IN [textures |-> pass.textures,
        calls |-> << clear >> \o back \o pass.calls \o << present >>]

(* the colours handed to sprite_render_ex *)
ColorMods == { ColorModNone, << 128, 0, 64 >> }

(* what the draw actions leave alone *)
drawFrame ==
    << platform, histVars, pc, running, accumulator, delta_time, current, previous,
       stress_test_active, stress_test_base_index, camera, player, measured,
       acc_start, acc_before_updates, frame_log, frame_updates, update_dts,
       end_current, hold_toggles, sprite_count, sprites, background,
       tm_count, tm_entries, decode_calls, next_texture, destroyed,
       first_handle >>

EngineRenderDraws ==
    /\ pc = "engine_run"
    /\ LET r == engine_render(textures, background, sprites, sprite_count,
                              camera, debug_enabled)
       IN textures' = r.textures /\ draw_calls' = r.calls
    /\ draw_order' = RenderOrder(sprites, sprite_count)
    /\ presented' = TRUE
    /\ last_call' = [op |-> "engine_render", index |-> 0 - 1,
                     rgb |-> ColorModNone]
    /\ UNCHANGED << drawFrame, debug_enabled >>

SpriteRender ==
    /\ pc = "engine_run"
    /\ \E i \in 0..(sprite_count - 1) :
          LET r == sprite_render(textures, sprites[i + 1], camera) IN
          /\ textures' = r.textures
          /\ draw_calls' = r.calls
          /\ last_call' = [op |-> "sprite_render", index |-> i,
                           rgb |-> ColorModNone]
    /\ UNCHANGED << drawFrame, debug_enabled, draw_order, presented >>

SpriteRenderEx ==
    /\ pc = "engine_run"
    /\ \E i \in 0..(sprite_count - 1), rgb \in ColorMods :
          LET s == sprites[i + 1]
              r == sprite_render_ex(textures, s, camera, s.angle, rgb)
          IN /\ textures' = r.textures
             /\ draw_calls' = r.calls
             /\ last_call' = [op |-> "sprite_render_ex", index |-> i,
                              rgb |-> rgb]
    /\ UNCHANGED << drawFrame, debug_enabled, draw_order, presented >>

(* the debug key pressed in a frame: debug_enabled = !debug_enabled *)
DebugKey ==
    /\ pc = "engine_run"
    /\ debug_enabled' = ~debug_enabled
    /\ UNCHANGED << drawFrame, textures, draw_calls, draw_order, presented,
                    last_call >>

(* game_state_t game = {0} in main *)
GraphicsInit ==
    /\ platform = TimingPlatform /\ HistIdle
    /\ pc = "main"
    /\ running = FALSE
    /\ accumulator = 0
    /\ delta_time = 0
    /\ current = AllUp
    /\ previous = AllUp
    /\ debug_enabled = FALSE
    /\ stress_test_active = FALSE
    /\ stress_test_base_index = 0
    /\ sprite_count = 0
    /\ camera = [x |-> F32(0), y |-> F32(0)]
    /\ player = [x |-> F32(0), y |-> F32(0), vel_x |-> 0, vel_y |-> 0,
                 width |-> 0, height |-> 0]
    /\ measured = 0
    /\ acc_start = 0
    /\ acc_before_updates = 0
    /\ frame_log = << >>
    /\ frame_updates = 0
    /\ update_dts = {}
    /\ end_current = AllUp
    /\ hold_toggles = [k \in ToggleKeys |-> 0]
    /\ sprites = << >>
    /\ draw_order = << >>
    /\ presented = FALSE
    /\ GfxIdle
    /\ TexEmpty

(* ------------------------------------------------------------------ *)
(* The frame clock of engine_run, in single precision                  *)
(* ------------------------------------------------------------------ *)
(* delta_time and accumulator are floats.  Here they are counted in 2^-30
   seconds: every float from 2^-7 up is a whole number of that unit, sums
   and differences of whole numbers are whole, and rounding to 24 bits
   keeps them whole, so the arithmetic below is the build's bit for bit as
   long as a frame lasts 0 or at least 8 milliseconds. *)
F32_FIXED_TIMESTEP == 2 * TimestepMantissa

(* MAX_DELTA_TIME 0.1f *)
F32_MAX_DELTA_TIME == F32Round(RoundHalfEven(2^30, 10))

(* MAX_ACCUMULATOR 0.25f *)
F32_MAX_ACCUMULATOR == 2^28

(* (current_time - last_time) / 1000.0f: the float nearest to ms / 1000;
   1000 is 8 * 125, and q is the spacing of the floats around the quotient *)
F32Milliseconds(ms) ==
    IF ms = 0 THEN 0
    ELSE LET q == F32Quantum(((ms * 2^20) \div 125) * 2^7)
         IN q * RoundHalfEven(ms * (2^27 \div q), 125)

(* the measured delta used as it is *)
F32ClampDelta_None(d) == d

(* if (delta_time > MAX_DELTA_TIME) delta_time = MAX_DELTA_TIME *)
F32ClampDelta(d) == IF d > F32_MAX_DELTA_TIME THEN F32_MAX_DELTA_TIME ELSE d

(* if (accumulator > MAX_ACCUMULATOR) accumulator = MAX_ACCUMULATOR *)
F32ClampAccumulator(acc) ==
    IF acc > F32_MAX_ACCUMULATOR THEN F32_MAX_ACCUMULATOR ELSE acc

(* while (accumulator >= FIXED_TIMESTEP) { game_update; accumulator -=
   FIXED_TIMESTEP; }: << calls made, accumulator left >> *)
RECURSIVE F32UpdateLoop(_, _)
F32UpdateLoop(acc, n) ==
    IF acc >= F32_FIXED_TIMESTEP
        THEN F32UpdateLoop(F32Sub(acc, F32_FIXED_TIMESTEP), n + 1)
        ELSE << n, acc >>

(* the frame durations measured, in milliseconds *)
ClockMs == {0, 10, 16, 17, 25, 100, 101, 300}

(* the clock of one iteration of while (game->running): the delta is
   measured and capped, added to the accumulator, the accumulator is capped
   and the update loop runs it down.  unsimulated keeps the exact account:
   the deltas added, FIXED_TIMESTEP taken off for every game_update call. *)
F32Frame ==
    /\ pc = "measure_delta"
    /\ running
    /\ frames < MaxClockFrames
    /\ \E ms \in ClockMs :
          LET d == F32ClampDelta(F32Milliseconds(ms))
              sum == F32Add(accumulator, d)
              r == F32UpdateLoop(F32ClampAccumulator(sum), 0)
          IN /\ measured' = ms
             /\ delta_time' = d
             /\ acc_start' = accumulator
             /\ acc_before_updates' = F32ClampAccumulator(sum)
             /\ frame_updates' = r[1]
             /\ accumulator' = r[2]
             /\ unsimulated' = unsimulated + d - r[1] * F32_FIXED_TIMESTEP
    /\ frames' = frames + 1
    /\ UNCHANGED << platform, pc, running, current, previous, debug_enabled,
                    stress_test_active, stress_test_base_index, sprite_count,
                    camera, player, frame_log, update_dts, end_current,
                    hold_toggles, pending, quit_seen, renderVars, texVars >>

ClockInit ==
    LoopStateOn({TimingPlatform}) /\ sprite_count = 2 /\ GfxIdle
    /\ sprites = << >> /\ draw_order = << >> /\ presented = FALSE /\ TexEmpty

(* ------------------------------------------------------------------ *)
(* Who destroys which texture (engine.c, debug.c, texture.c)           *)
(* ------------------------------------------------------------------ *)
(* Textures are followed by their handles: engine_init makes the handles
   1..Len(textures), the stress test the ones from next_texture on;
   destroyed lists every SDL_DestroyTexture call. *)

(* texture_get as a function of the cache *)
CachedTexture(entries, count, path) ==
    LET i == FindEntry(entries, count, path)
    IN IF i = NotFound THEN NULL ELSE entries[i + 1].texture

(* a sprite pass that takes the player's texture for the player's own
   whatever the cache holds *)
SpritePassDestroys_PlayerToo(i, tex, cached) == tex # NULL

(* if (tex && i != player_index) destroy;
   else if (tex && !texture_get(PLAYER_TEXTURE_PATH)) destroy *)
SpritePassDestroys(i, tex, cached) ==
    \/ tex # NULL /\ i # player_index
    \/ ~(tex # NULL /\ i # player_index) /\ tex # NULL /\ cached = NULL

(* engine_cleanup: what its sprite and background pass destroys and what
   texture_manager_cleanup destroys, in order *)
engine_cleanup(store, count, bg, entries, cached_count) ==
    LET cached == CachedTexture(entries, cached_count, PLAYER_TEXTURE_PATH)
        kept == {k \in 1..count :
                    SpritePassDestroys(k - 1, store[k].texture, cached)}
        of_sprites ==
            SelectSeq([k \in 1..count |->
                          IF k \in kept THEN store[k].texture ELSE NULL],
                      IsTexture)
        of_background ==
            IF bg # NULL /\ CachedTexture(entries, cached_count,
                                          BACKGROUND_TEXTURE_PATH) = NULL
                THEN << bg >> ELSE << >>
    IN [pass |-> of_sprites \o of_background,
        cache |-> CleanupDestroys(entries, cached_count, 0)]

(* the sprites engine_render hands to sprite_render or sprite_render_ex have
   a z_index of 0..Z_INDEX_MAX; those with a texture reach SDL *)
IsDrawn(s) == s.texture # NULL /\ s.z_index >= 0 /\ s.z_index <= Z_INDEX_MAX

TextureDraw(t) == [fn |-> "SDL_RenderCopy", texture |-> t]

(* the textures engine_render hands to SDL in a frame: the background, then
   the sprites' (listed by index; the z pass reorders them) *)
TexturesDrawn(bg, store, count) ==
    (IF bg # NULL THEN << TextureDraw(bg) >> ELSE << >>)
    \o SelectSeq([k \in 1..count |->
                     IF IsDrawn(store[k]) THEN TextureDraw(store[k].texture)
                                          ELSE TextureDraw(NULL)],
                 LAMBDA d : d.texture # NULL)

(* the stress key pressed in a frame *)
FrameToggle ==
    /\ pc = "engine_run"
    /\ StressToggleOn(CreateOutcomes, {r \in RandStreams : r.step > 0})

(* a fixed tick of a frame *)
FrameTick == pc = "engine_run" /\ StressTick(MaxFrameTicks)

(* engine_render of a frame *)
FrameRender ==
    /\ pc = "engine_run"
    /\ draw_calls' = TexturesDrawn(background, sprites, sprite_count)
    /\ presented' = TRUE
    /\ UNCHANGED << loopVars, sprite_count, sprites, draw_order, background,
                    textures, texVars >>

(* the loop is left and main calls engine_cleanup *)
EngineCleanup ==
    /\ pc = "engine_run"
    /\ pc' = "cleaned_up"
    /\ running' = FALSE
    /\ LET c == engine_cleanup(sprites, sprite_count, background, tm_entries,
                               tm_count)
       IN /\ destroyed' = destroyed \o c.pass \o c.cache
          /\ last_call' = [op |-> "engine_cleanup", pass |-> c.pass,
                           cache |-> c.cache]
    /\ tm_entries' =
          [i \in 1..TEXTURE_MAX_ENTRIES |->
              IF i <= tm_count
                  THEN [tm_entries[i] EXCEPT !.texture = NULL, !.path = << >>]
                  ELSE tm_entries[i]]
    /\ tm_count' = 0
    /\ UNCHANGED << platform, histVars, accumulator, delta_time, current, previous,
                    debug_enabled, stress_test_active, stress_test_base_index,
                    camera, player, measured, acc_start, acc_before_updates,
                    frame_log, frame_updates, update_dts, end_current,
                    hold_toggles >>
    /\ UNCHANGED << sprite_count, renderVars, decode_calls, next_texture,
                    first_handle >>

(* what the decoder makes of assets/player.png and assets/background.png:
   nothing, or an image of the size the engine expects *)
PlayerFiles == {d \in DecoderResults : d.ok => d.width = SPRITE_WIDTH}
BackgroundFiles == {d \in DecoderResults : d.ok => d.width = WINDOW_WIDTH}

(* engine_init has returned true: the store with the textures it got, the
   cache, the background *)
OwnershipInit ==
    /\ \E env \in InitEnvironments :
          LET r == engine_init(env) IN
          /\ r.ret
          /\ env.player_file \in PlayerFiles
          /\ env.background_file \in BackgroundFiles
          /\ sprites = [InitialStore(2) EXCEPT
                           ![1].texture = r.sprites[1].texture,
                           ![2].texture = r.sprites[2].texture]
          /\ background = r.background
          /\ textures = r.g.textures
          /\ tm_count = r.g.count
          /\ tm_entries = r.g.entries
          /\ decode_calls = r.g.decodes
          /\ next_texture = Len(r.g.textures) + 1
    /\ sprite_count = 2
    /\ last_call = ToggleCall(FALSE, 2, {}, << >>, 0)
    /\ destroyed = << >>
    /\ first_handle = [p \in Paths |-> NULL]
    /\ draw_order = << >>
    /\ draw_calls = << >>
    /\ presented = FALSE
    /\ platform = TimingPlatform /\ HistIdle
    /\ pc = "engine_run"
    /\ running = TRUE
    /\ accumulator = 0
    /\ delta_time = 0
    /\ current = AllUp
    /\ previous = AllUp
    /\ debug_enabled = FALSE
    /\ stress_test_active = FALSE
    /\ stress_test_base_index = 0
    /\ camera = [x |-> 0, y |-> 0]
    /\ player = [x |-> PLAYER_START_X, y |-> PLAYER_START_Y,
                 vel_x |-> 0, vel_y |-> 0,
                 width |-> SPRITE_WIDTH, height |-> SPRITE_HEIGHT]
    /\ measured = 0
    /\ acc_start = 0
    /\ acc_before_updates = 0
    /\ frame_log = << >>
    /\ frame_updates = 0
    /\ update_dts = {}
    /\ end_current = AllUp
    /\ hold_toggles = [k \in ToggleKeys |-> 0]

(* ------------------------------------------------------------------ *)
(* input_update called any number of times (input.c)                   *)
(* ------------------------------------------------------------------ *)
(* the keys the user works here: a movement key, a camera key and the two
   toggle keys, in every combination *)
LiveKeySets ==
    SUBSET {KEY_MOVE_RIGHT, KEY_CAM_UP, KEY_DEBUG_TOGGLE, KEY_STRESS_TEST}

inputFrame ==
    << platform, histVars, pc, running, accumulator, delta_time, debug_enabled,
       stress_test_active, stress_test_base_index, sprite_count, camera,
       player, measured, acc_start, acc_before_updates, frame_updates,
       update_dts, end_current, hold_toggles >>

(* SDL rewrites the array input->current points to; frame_log lists the
   input_update calls made since *)
LiveKeysChange ==
    /\ \E held \in LiveKeySets :
          /\ current' = [k \in BoundKeys |-> k \in held]
          /\ current' # current
    /\ frame_log' = << >>
    /\ UNCHANGED << inputFrame, previous, renderVars, texVars >>

(* a call of input_update, wherever it is made *)
InputUpdateCall ==
    /\ Len(frame_log) < MaxInputCalls
    /\ previous' = input_update(current, previous)
    /\ frame_log' = Append(frame_log, "input_update")
    /\ UNCHANGED << inputFrame, current, renderVars, texVars >>

InputInit ==
    /\ LoopState0
    /\ platform = TimingPlatform /\ HistIdle
    /\ sprite_count = 2
    /\ sprites = << >>
    /\ draw_order = << >>
    /\ presented = FALSE
    /\ GfxIdle
    /\ TexEmpty

(* ------------------------------------------------------------------ *)
(* Specifications                                                      *)
(* ------------------------------------------------------------------ *)
RenderIdle ==
    sprites = << >> /\ draw_order = << >> /\ presented = FALSE /\ GfxIdle

Init == LoopInit /\ RenderIdle /\ TexEmpty

Next ==
    \/ MeasureDelta
    \/ ExitLoop
    \/ InputUpdate
    \/ HandleEvents
    \/ ProcessInput
    \/ Toggles
    \/ AccumulateStep
    \/ FixedUpdate
    \/ RenderFrame

Spec == Init /\ [][Next]_vars

(* engine_run is one thread that never waits: SDL_GetTicks, SDL_PollEvent
   and the draw calls all return, so a step that can be taken is taken *)
LiveInit == Init /\ platform = TimingPlatform

LiveSpec == LiveInit /\ [][Next]_vars /\ WF_vars(Next)

(* engine_run under a user who works the movement keys *)
MoveInit == LoopStateOn({MovePlatform}) /\ sprite_count = 2 /\ RenderIdle /\ TexEmpty

MoveSpec == MoveInit /\ [][Next]_vars

RenderInit ==
    /\ LoopState0
    /\ platform = TimingPlatform /\ HistIdle
    /\ TexEmpty
    /\ sprites \in SpriteStores
    /\ sprite_count \in 0..Len(sprites)
    /\ draw_order = << >>
    /\ presented = FALSE
    /\ GfxIdle

RenderNext ==
    \/ EngineRender
    \/ SpriteSortByZ

RenderSpec == RenderInit /\ [][RenderNext]_vars

TextureInit ==
    LoopInit /\ platform = TimingPlatform /\ HistIdle /\ RenderIdle /\ TexInit

TextureNext ==
    \/ TextureLoad
    \/ TextureGet
    \/ TextureGetSize
    \/ TextureManagerCleanup

TextureSpec == TextureInit /\ [][TextureNext]_vars

StressNext ==
    \/ StressToggle
    \/ StressUpdate

StressSpec == StressInit /\ [][StressNext]_vars

BounceSpec == BounceInit /\ [][StressNext]_vars

UpdateNext ==
    \/ KeyboardChanges
    \/ UpdateProcessInput
    \/ UpdateTick

UpdateSpec == UpdateInit /\ [][UpdateNext]_vars

FloatNext ==
    \/ KeyboardChanges
    \/ UpdateProcessInput
    \/ F32GameUpdate

FloatSpec == FloatInit /\ [][FloatNext]_vars

PanNext ==
    \/ PanKeysChange
    \/ PanTick

PanSpec == PanInit /\ [][PanNext]_vars

ClockNext == F32Frame

ClockSpec == ClockInit /\ [][ClockNext]_vars

ScreenNext == WorldToScreen

ScreenSpec == ScreenInit /\ [][ScreenNext]_vars

InputNext ==
    \/ LiveKeysChange
    \/ InputUpdateCall

InputSpec == InputInit /\ [][InputNext]_vars

OwnershipNext ==
    \/ FrameToggle
    \/ FrameTick
    \/ FrameRender
    \/ EngineCleanup

OwnershipSpec == OwnershipInit /\ [][OwnershipNext]_vars

GraphicsNext ==
    \/ EngineInit
    \/ EngineRenderDraws
    \/ SpriteRender
    \/ SpriteRenderEx
    \/ DebugKey

GraphicsSpec == GraphicsInit /\ [][GraphicsNext]_vars

(* ------------------------------------------------------------------ *)
(* Properties                                                          *)
(* ------------------------------------------------------------------ *)
IsPrefix(a, b) ==
    Len(a) <= Len(b) /\ \A i \in 1..Len(a) : a[i] = b[i]

(* the last step of the current frame was the render *)
Rendered ==
    frame_log # << >> /\ frame_log[Len(frame_log)] = "engine_render"

(* the steps of one frame that ran n fixed ticks, in the required order *)
ExpectedLog(n) ==
    << "measure_delta", "input_update", "engine_handle_events",
       "game_process_input", "toggles", "accumulate" >>
    \o [i \in 1..n |-> "game_update"]
    \o << "engine_render" >>

(* the places of a frame where the key state is queried *)
QueryPoints == {"game_process_input", "toggles", "accumulate", "fixed_update"}

StoreInZRange ==
    \A i \in 1..sprite_count : sprites[i].z_index \in 0..100

(* C1: for a store whose z_index values lie in [0,100], engine_render visits
   every sprite below sprite_count exactly once, in non-decreasing z_index
   order, sprites of equal z_index in increasing array index: the stable
   sort of the store by z_index. *)
C1_DrawOrderIsStableSortByZ ==
    (presented /\ StoreInZRange) =>
        /\ Len(draw_order) = sprite_count
        /\ \A i \in 0..(sprite_count - 1) :
              \E k \in 1..Len(draw_order) : draw_order[k] = i
        /\ \A a, b \in 1..Len(draw_order) :
              a < b =>
                  LET ia == draw_order[a]
                      ib == draw_order[b]
                      za == sprites[ia + 1].z_index
                      zb == sprites[ib + 1].z_index
                  IN za < zb \/ (za = zb /\ ia < ib)

(* a pass over three sprites, the first two on one layer above the third *)
C1_Witness ==
    /\ presented
    /\ StoreInZRange
    /\ sprite_count = 3
    /\ sprites[1].z_index = sprites[2].z_index
    /\ sprites[3].z_index < sprites[1].z_index
    /\ draw_order = << 2, 0, 1 >>

(* C2: at every query of a frame, previous[k] is the value current[k] had at
   the end of the previous frame, so input_key_pressed(k) holds iff k was up
   then and is down now, and input_key_released(k) iff k was down then and
   is up now. *)
C2_EdgesCompareWithPreviousFrame ==
    pc \in QueryPoints =>
        \A k \in BoundKeys :
            /\ previous[k] = end_current[k]
            /\ input_key_pressed(k) <=> (~end_current[k] /\ current[k])
            /\ input_key_released(k) <=> (end_current[k] /\ ~current[k])

(* a frame that sees a press edge on one key and a release edge on another *)
C2_Witness ==
    /\ pc = "toggles"
    /\ input_key_pressed(KEY_DEBUG_TOGGLE)
    /\ ~end_current[KEY_DEBUG_TOGGLE]
    /\ input_key_released(KEY_STRESS_TEST)
    /\ end_current[KEY_STRESS_TEST]

(* C3: while a toggle key stays down over consecutive frames, debug_enabled
   (for the stress key: stress_test_active) has been flipped exactly once
   since the key went down, in the first of those frames, whatever the
   number of fixed ticks of the frames. *)
C3_HeldKeyTogglesOnce ==
    \A k \in ToggleKeys :
        /\ hold_toggles[k] <= 1
        /\ (current[k] /\ pc \notin {"game_process_input", "toggles"})
              => hold_toggles[k] = 1

(* both toggle keys held since an earlier frame, in a frame of several ticks *)
C3_Witness ==
    /\ pc = "fixed_update"
    /\ frame_updates >= 2
    /\ \A k \in ToggleKeys :
          current[k] /\ previous[k] /\ end_current[k] /\ hold_toggles[k] = 1
    /\ debug_enabled
    /\ stress_test_active

(* C4: the steps of a frame run in the order measure, input_update, event
   drain, game_process_input, toggles, accumulate, the fixed ticks, render,
   each once, with exactly one render whatever the number of ticks. *)
C4_FrameStepsInOrder ==
    /\ IsPrefix(frame_log, ExpectedLog(frame_updates))
    /\ (frame_log # << >> /\ pc \in {"measure_delta", "returned"})
          => frame_log = ExpectedLog(frame_updates)

(* a completed frame that ran several fixed ticks *)
C4_Witness ==
    /\ pc = "measure_delta"
    /\ frame_updates >= 2
    /\ Len(frame_log) = 7 + frame_updates
    /\ Rendered

(* C5: game_update is only called with FIXED_TIMESTEP; a frame calls it once
   for every FIXED_TIMESTEP that fits in the accumulator, subtracting
   FIXED_TIMESTEP per call, so at the render 0 <= accumulator <
   FIXED_TIMESTEP. *)
C5_FixedTicksDrainAccumulator ==
    /\ update_dts \subseteq {FIXED_TIMESTEP}
    /\ pc = "fixed_update" =>
          /\ accumulator >= 0
          /\ accumulator + frame_updates * FIXED_TIMESTEP = acc_before_updates
    /\ Rendered =>
          /\ 0 <= accumulator
          /\ accumulator < FIXED_TIMESTEP
          /\ frame_updates = acc_before_updates \div FIXED_TIMESTEP
          /\ accumulator = acc_before_updates % FIXED_TIMESTEP

(* a rendered frame whose delta was not the fixed timestep, after several
   ticks and with time left over *)
C5_Witness ==
    /\ Rendered
    /\ frame_updates >= 2
    /\ delta_time # FIXED_TIMESTEP
    /\ accumulator > 0
    /\ update_dts = {FIXED_TIMESTEP}

(* C6: whatever the measured deltas, the accumulator is at most
   MAX_ACCUMULATOR when the update loop starts and no frame makes more than
   floor(MAX_ACCUMULATOR / FIXED_TIMESTEP) = 15 game_update calls. *)
C6_CatchUpIsBounded ==
    /\ MAX_ACCUMULATOR \div FIXED_TIMESTEP = 15
    /\ frame_updates <= 15
    /\ (pc = "fixed_update" /\ frame_updates = 0)
          => accumulator <= MAX_ACCUMULATOR

(* the update loop of a frame that measured more than MAX_ACCUMULATOR *)
C6_Witness ==
    /\ pc = "fixed_update"
    /\ measured > MAX_ACCUMULATOR
    /\ frame_updates >= 1
    /\ accumulator < FIXED_TIMESTEP

(* C8: from the same accumulator, a frame that measures more than
   MAX_DELTA_TIME adds to the accumulator what a frame measuring exactly
   MAX_DELTA_TIME adds, runs as many fixed ticks and leaves the same
   remainder. *)
C8_OverlongFrameCountsAsMaxDelta ==
    (Rendered /\ measured > MAX_DELTA_TIME) =>
        /\ acc_before_updates = Accumulate(acc_start, MAX_DELTA_TIME)
        /\ << frame_updates, accumulator >>
              = FrameResult(acc_start, MAX_DELTA_TIME)

(* a rendered frame that measured over the cap, entered with time left over *)
C8_Witness ==
    /\ Rendered
    /\ measured > MAX_DELTA_TIME
    /\ acc_start > 0
    /\ frame_updates >= 6

(* C9: once texture_load(path) has succeeded, a later texture_load of the
   same path returns the same handle, does not call the decoder and leaves
   the entry count unchanged. *)
C9_RepeatedLoadReturnsCachedHandle ==
    (last_call.op = "texture_load" /\ last_call.prior # NULL) =>
        /\ last_call.ret = last_call.prior
        /\ ~last_call.decoded
        /\ tm_count = last_call.count_before

(* C10: with TEXTURE_MAX_ENTRIES entries held, texture_load of a path that
   no entry matches returns NULL without calling the decoder and leaves the
   count and every entry as they were. *)
C10_FullCacheRejectsNewPath ==
    [][ ( /\ last_call'.op = "texture_load"
          /\ tm_count = TEXTURE_MAX_ENTRIES
          /\ FindEntry(tm_entries, tm_count, last_call'.path) = NotFound )
        => ( /\ last_call'.ret = NULL
             /\ ~last_call'.decoded
             /\ decode_calls' = decode_calls
             /\ next_texture' = next_texture
             /\ tm_count' = tm_count
             /\ tm_entries' = tm_entries ) ]_vars

(* a load of an uncached path refused by a full cache *)
C10_Witness ==
    /\ last_call.op = "texture_load"
    /\ last_call.count_before = TEXTURE_MAX_ENTRIES
    /\ tm_count = TEXTURE_MAX_ENTRIES
    /\ FindEntry(tm_entries, tm_count, last_call.path) = NotFound
    /\ last_call.ret = NULL
    /\ ~last_call.decoded

(* the last call was a texture_load whose decode failed *)
LoadFailedToDecode(c) ==
    c.op = "texture_load" /\ c.decoded /\ c.ret = NULL

(* C11: a texture_load of an uncached path whose decode fails returns NULL
   and leaves the count and every entry as they were, so no entry matches
   the path afterwards; a texture_get of that path right after it returns
   NULL and a texture_load of it calls the decoder again. *)
C11_FailedDecodeLeavesCacheUnchanged ==
    [][ /\ ( /\ last_call'.op = "texture_load"
             /\ last_call'.decoded
             /\ next_texture' = next_texture )
           => ( /\ FindEntry(tm_entries, tm_count, last_call'.path) = NotFound
                /\ last_call'.ret = NULL
                /\ tm_count' = tm_count
                /\ tm_entries' = tm_entries
                /\ FindEntry(tm_entries', tm_count', last_call'.path)
                      = NotFound )
        /\ ( /\ LoadFailedToDecode(last_call)
             /\ last_call'.path = last_call.path )
           => ( /\ last_call'.op = "texture_get" => last_call'.ret = NULL
                /\ last_call'.op = "texture_load" => last_call'.decoded ) ]_vars

(* two decodes were tried and failed, the cache holding what it held *)
C11_Witness ==
    /\ LoadFailedToDecode(last_call)
    /\ decode_calls = 2
    /\ next_texture = TEXTURE_MAX_ENTRIES
    /\ tm_count = last_call.count_before
    /\ tm_count = TEXTURE_MAX_ENTRIES - 1
    /\ FindEntry(tm_entries, tm_count, last_call.path) = NotFound

(* C12: whatever the calls made and the lengths of their paths, no two
   entries below count hold the same stored path, and count stays within
   0..TEXTURE_MAX_ENTRIES. *)
C12_StoredPathsAreUnique ==
    /\ 0 <= tm_count
    /\ tm_count <= TEXTURE_MAX_ENTRIES
    /\ \A i, j \in 1..tm_count :
          i # j => tm_entries[i].path # tm_entries[j].path

(* the number of times handle t occurs in the log d of destroyed textures *)
TimesDestroyed(d, t) == Cardinality({k \in 1..Len(d) : d[k] = t})

(* C13: texture_manager_cleanup destroys the texture of every entry once,
   leaves count = 0 and no path retrievable; a cleanup of the emptied cache
   destroys nothing and changes no entry; no texture is ever destroyed
   twice. *)
C13_CleanupDestroysEachTextureOnce ==
    [][ /\ last_call'.op = "texture_manager_cleanup"
           => ( /\ destroyed' =
                      destroyed \o [i \in 1..tm_count |-> tm_entries[i].texture]
                /\ \A i \in 1..tm_count :
                      /\ tm_entries[i].texture # NULL
                      /\ TimesDestroyed(destroyed, tm_entries[i].texture) = 0
                      /\ TimesDestroyed(destroyed', tm_entries[i].texture) = 1
                /\ tm_count' = 0
                /\ \A p \in Paths :
                      FindEntry(tm_entries', tm_count', p) = NotFound
                /\ \A i \in 1..TEXTURE_MAX_ENTRIES :
                      tm_entries'[i].texture = NULL
                /\ tm_count = 0 =>
                      (destroyed' = destroyed /\ tm_entries' = tm_entries) )
        /\ destroyed' # destroyed =>
              \A k \in 1..Len(destroyed') :
                  TimesDestroyed(destroyed', destroyed'[k]) = 1
      ]_vars

(* a cleanup of the cache that an earlier cleanup of a full cache emptied *)
C13_Witness ==
    /\ last_call.op = "texture_manager_cleanup"
    /\ last_call.count_before = 0
    /\ tm_count = 0
    /\ Len(destroyed) >= TEXTURE_MAX_ENTRIES
    /\ \A t \in 1..TEXTURE_MAX_ENTRIES : TimesDestroyed(destroyed, t) = 1

Lookups == {"texture_get", "texture_get_size"}

(* the indices below count whose stored path equals p, character by
   character *)
Matches(p) == {i \in 1..tm_count : tm_entries[i].path = p}

(* C14: texture_get and texture_get_size call no decoder and change neither
   the count nor any entry; they answer from the first entry whose stored
   path equals the argument (the handle, respectively true with the stored
   width and height) and with NULL, respectively false, when no entry
   matches; the dimensions of an entry are those given to it by its load. *)
C14_LookupsArePure ==
    [][ /\ last_call'.op \in Lookups
           => ( /\ decode_calls' = decode_calls
                /\ next_texture' = next_texture
                /\ destroyed' = destroyed
                /\ tm_count' = tm_count
                /\ tm_entries' = tm_entries
                /\ LET m == Matches(last_call'.path) IN
                   IF m = {}
                       THEN last_call'.ret = NULL
                       ELSE LET i == CHOOSE i \in m : \A j \in m : i <= j
                                e == tm_entries[i]
                            IN IF last_call'.op = "texture_get"
                                   THEN last_call'.ret = e.texture
                                   ELSE /\ last_call'.ret = 1
                                        /\ last_call'.out_w = e.width
                                        /\ last_call'.out_h = e.height )
        /\ \A i \in 1..Min(tm_count, tm_count') :
              tm_entries'[i] = tm_entries[i]
        /\ tm_count' = tm_count + 1
              => \E d \in DecoderResults :
                    /\ d.ok
                    /\ tm_entries'[tm_count'].width = d.width
                    /\ tm_entries'[tm_count'].height = d.height
      ]_vars

(* the size of a loaded 800x600 image asked for under its own path, the
   path in the other letter case being unknown to the cache *)
C14_Witness ==
    /\ last_call.op = "texture_get_size"
    /\ last_call.ret = 1
    /\ last_call.out_w = 800
    /\ last_call.out_h = 600
    /\ last_call.path = PathUpper
    /\ Matches(PathLower) = {}
    /\ decode_calls = 1

(* the step switches the stress test on, respectively off *)
TurnsOn == ~stress_test_active /\ stress_test_active'
TurnsOff == stress_test_active /\ ~stress_test_active'

(* the textures held by the sprites of store at the slots base..count - 1 *)
BatchTextures(store, base, count) ==
    {store[k].texture : k \in (base + 1)..count} \ {NULL}

(* C15: from a store with the stress test off, a toggle that switches it on
   and the next toggle, which switches it off, with game_update calls in
   between, bring sprite_count back to what it was before the first and
   leave the test off; every texture the first created has then been
   destroyed exactly once, by the second. *)
C15_StressRoundTrip ==
    [][ /\ TurnsOn =>
              /\ last_call'.count_before = sprite_count
              /\ { last_call'.created[k] : k \in 1..Len(last_call'.created) }
                    = BatchTextures(sprites', sprite_count, sprite_count')
              /\ \A k \in 1..Len(last_call'.created) :
                    /\ last_call'.created[k] >= next_texture
                    /\ TimesDestroyed(destroyed', last_call'.created[k]) = 0
        /\ (stress_test_active /\ stress_test_active') =>
              /\ last_call' = last_call
              /\ destroyed' = destroyed
              /\ BatchTextures(sprites', stress_test_base_index', sprite_count')
                    = BatchTextures(sprites, stress_test_base_index,
                                    sprite_count)
        /\ TurnsOff =>
              /\ sprite_count' = last_call.count_before
              /\ \A k \in 1..Len(last_call.created) :
                    /\ TimesDestroyed(destroyed, last_call.created[k]) = 0
                    /\ TimesDestroyed(destroyed', last_call.created[k]) = 1
              /\ Len(destroyed') = Len(destroyed) + Len(last_call.created)
      ]_vars

(* a whole batch switched off after one game_update, the first spawned
   sprite having been moved by that tick *)
C15_Witness ==
    /\ last_call.op = "debug_stress_test_toggle"
    /\ ~last_call.on
    /\ ~stress_test_active
    /\ sprite_count = 2
    /\ Len(last_call.created) = STRESS_TEST_SPRITE_COUNT
    /\ \A k \in 1..Len(last_call.created) :
          TimesDestroyed(destroyed, last_call.created[k]) = 1
    /\ sprites[3].origin = "debug_stress_test_toggle"
    /\ sprites[3].vel_x = 0 - 50
    /\ sprites[3].x = Px(0 - WINDOW_WIDTH \div 2) - 50 * UpdateDt
    /\ sprites[3].angle = 90 * UpdateDt

(* C16: stress_test_base_index and sprite_count stay ordered within
   0..SPRITE_MAX_COUNT; while the test is on, the player's slot lies below
   the base index and the slots from the base index up to sprite_count are
   the ones the spawn loop filled, no slot below the base index being one
   of them. *)
C16_StressIndicesBracketTheBatch ==
    /\ 0 <= stress_test_base_index
    /\ stress_test_base_index <= sprite_count
    /\ sprite_count <= SPRITE_MAX_COUNT
    /\ stress_test_active =>
          /\ player_index < stress_test_base_index
          /\ last_call.on
          /\ last_call.written = stress_test_base_index..(sprite_count - 1)
          /\ \A k \in 1..SPRITE_MAX_COUNT :
                IF k - 1 >= stress_test_base_index /\ k - 1 < sprite_count
                    THEN sprites[k].origin = "debug_stress_test_toggle"
                    ELSE k - 1 < stress_test_base_index
                            => sprites[k].origin # "debug_stress_test_toggle"

(* the second batch of a run, moved by game_update, above the two sprites
   of engine_init *)
C16_Witness ==
    /\ stress_test_active
    /\ last_call.batches = 2
    /\ frame_updates >= 1
    /\ stress_test_base_index = 2
    /\ sprite_count = 2 + STRESS_TEST_SPRITE_COUNT
    /\ sprites[1].origin = "engine_init"
    /\ sprites[sprite_count].origin = "debug_stress_test_toggle"
    /\ sprites[sprite_count].angle >= 90 * UpdateDt

(* C17: a toggle that switches the test on records the sprite count it
   finds as base index and then fills exactly min(STRESS_TEST_SPRITE_COUNT,
   SPRITE_MAX_COUNT - sprite_count) slots, the next free ones, none of them
   at or beyond SPRITE_MAX_COUNT, leaving every other slot as it was; the
   test is on afterwards even when fewer sprites than a batch, or none,
   fitted. *)
C17_SpawnStopsAtCapacity ==
    [][ (~stress_test_active /\ last_call'.op = "debug_stress_test_toggle"
            /\ last_call' # last_call) =>
          LET fits == Min(STRESS_TEST_SPRITE_COUNT,
                          SPRITE_MAX_COUNT - sprite_count)
          IN /\ stress_test_active'
             /\ stress_test_base_index' = sprite_count
             /\ sprite_count' = sprite_count + fits
             /\ last_call'.written = sprite_count..(sprite_count + fits - 1)
             /\ \A w \in last_call'.written : 0 <= w /\ w < SPRITE_MAX_COUNT
             /\ \A k \in 1..SPRITE_MAX_COUNT :
                   IF (k - 1) \in last_call'.written
                       THEN sprites'[k].origin = "debug_stress_test_toggle"
                       ELSE sprites'[k] = sprites[k]
      ]_vars

(* the test switched on over a store with room for a single sprite *)
C17_Witness ==
    /\ stress_test_active
    /\ last_call.on
    /\ last_call.count_before = SPRITE_MAX_COUNT - 1
    /\ last_call.written = {SPRITE_MAX_COUNT - 1}
    /\ stress_test_base_index = SPRITE_MAX_COUNT - 1
    /\ sprite_count = SPRITE_MAX_COUNT
    /\ sprites[SPRITE_MAX_COUNT].origin = "debug_stress_test_toggle"

(* the player's rectangle lies in the region the camera shows *)
InVisibleRegion(p, cam) ==
    /\ cam.x <= p.x
    /\ p.x <= cam.x + Px(WINDOW_WIDTH) - Px(p.width)
    /\ cam.y <= p.y
    /\ p.y <= cam.y + Px(WINDOW_HEIGHT) - Px(p.height)

(* C18: after every game_update the player lies between the camera's left
   edge and its right edge less the player's width, and between its top
   edge and its bottom edge less the player's height, the camera being the
   one the same tick has panned; so it does whenever a frame is rendered,
   whatever keys are held. *)
C18_PlayerStaysInVisibleRegion ==
    InVisibleRegion(player, camera)

(* a tick in which the camera, panning right and down, pushed a player
   heading left along with its left edge *)
C18_Witness ==
    /\ frame_updates >= 1
    /\ current[KEY_CAM_RIGHT]
    /\ current[KEY_CAM_DOWN]
    /\ player.vel_x = 0 - SPRITE_SPEED
    /\ camera.x = CameraStep
    /\ player.x = camera.x
    /\ player.y = camera.y

(* offsets from the camera's corner of positions left of, on the edges of,
   inside and right of the region, and the same vertically *)
ProbeOffsetsX ==
    {0 - Px(WINDOW_WIDTH) - PlayerStep, 0 - 1, 0, 1, PLAYER_START_X,
     Px(WINDOW_WIDTH - SPRITE_WIDTH) - 1, Px(WINDOW_WIDTH - SPRITE_WIDTH),
     Px(WINDOW_WIDTH - SPRITE_WIDTH) + 1, Px(2 * WINDOW_WIDTH)}
ProbeOffsetsY ==
    {0 - Px(WINDOW_HEIGHT) - PlayerStep, 0 - 1, 0, 1, PLAYER_START_Y,
     Px(WINDOW_HEIGHT - SPRITE_HEIGHT) - 1, Px(WINDOW_HEIGHT - SPRITE_HEIGHT),
     Px(WINDOW_HEIGHT - SPRITE_HEIGHT) + 1, Px(2 * WINDOW_HEIGHT)}

(* C19: for the camera of any state and a player put anywhere around it,
   and for the position a tick integrates to, the clamp applied to its own
   result gives that result again. *)
C19_ClampIsIdempotent ==
    /\ \A dx \in ProbeOffsetsX, dy \in ProbeOffsetsY :
          LET p == [player EXCEPT !.x = camera.x + dx, !.y = camera.y + dy]
              once == ClampToCamera(p, camera)
          IN /\ ClampToCamera(once, camera) = once
             /\ InVisibleRegion(p, camera) => once = p
    /\ LET once == ClampToCamera(Integrate(player, UpdateDt), camera)
       IN ClampToCamera(once, camera) = once

(* a player on the left edge heading left: the tick's integration leaves
   the region, the clamp puts it back on the edge and a second clamp leaves
   it there *)
C19_Witness ==
    /\ frame_updates >= 1
    /\ player.x = camera.x
    /\ player.vel_x = 0 - SPRITE_SPEED
    /\ Integrate(player, UpdateDt).x < camera.x
    /\ ClampToCamera(Integrate(player, UpdateDt), camera) = player
    /\ ClampToCamera(player, camera) = player

(* the step is a single-precision game_update *)
FloatTick == frame_updates' = frame_updates + 1

(* the coordinate lies strictly between the edges the clamp puts a sprite
   on, so that the clamp has not touched it *)
XUnclamped(p, cam) ==
    /\ cam.x < p.x
    /\ p.x < F32Add(F32Add(cam.x, F32(WINDOW_WIDTH)), 0 - F32(p.width))
YUnclamped(p, cam) ==
    /\ cam.y < p.y
    /\ p.y < F32Add(F32Add(cam.y, F32(WINDOW_HEIGHT)), 0 - F32(p.height))

(* C20: a tick advances each coordinate the clamp does not touch by exactly
   velocity * (1 / TARGET_FPS), 5.0 for a velocity of 300, and leaves the
   velocity as it was. *)
C20_TickAdvancesByVelocityOverFps ==
    [][ FloatTick =>
          /\ player'.vel_x = player.vel_x
          /\ player'.vel_y = player.vel_y
          /\ XUnclamped(player', camera') =>
                (player'.x - player.x) * TARGET_FPS = player.vel_x * 2^21
          /\ YUnclamped(player', camera') =>
                (player'.y - player.y) * TARGET_FPS = player.vel_y * 2^21
      ]_vars

(* how far TARGET_FPS times the advance of a coordinate may lie from the
   velocity, counted in 2^-21: half a spacing of the floats around the new
   coordinate, half a spacing of those around the product, and what
   FIXED_TIMESTEP exceeds 1 / TARGET_FPS by *)
AdvanceSlack(v, new) ==
    (TARGET_FPS \div 2) * F32Quantum(Abs(new)) + (TARGET_FPS \div 2)
    + (Abs(v) * (TARGET_FPS * TimestepMantissa - 2^29)) \div 2^8 + 1

(* C20, as amended: a tick sets each coordinate the clamp does not touch to
   the float nearest to the coordinate plus the float velocity *
   FIXED_TIMESTEP, so its advance is velocity / TARGET_FPS up to rounding:
   with velocity (300, 0), x goes from 368 to exactly 373 but from 0 to
   5.0000005, the float next above 5; a coordinate whose velocity is 0
   stays; the velocity is left as it was. *)
C20_TickAdvancesToNearestFloat ==
    [][ FloatTick =>
          /\ player'.vel_x = player.vel_x
          /\ player'.vel_y = player.vel_y
          /\ XUnclamped(player', camera') =>
                /\ Abs((player'.x - player.x) * TARGET_FPS
                         - player.vel_x * 2^21)
                      <= AdvanceSlack(player.vel_x, player'.x)
                /\ player.vel_x = 0 => player'.x = player.x
                /\ (player.x = F32(368) /\ player.vel_x = SPRITE_SPEED)
                      => player'.x = F32(373)
                /\ (player.x = F32(0) /\ player.vel_x = SPRITE_SPEED)
                      => player'.x = F32(5) + 1
          /\ YUnclamped(player', camera') =>
                /\ Abs((player'.y - player.y) * TARGET_FPS
                         - player.vel_y * 2^21)
                      <= AdvanceSlack(player.vel_y, player'.y)
                /\ player.vel_y = 0 => player'.y = player.y
      ]_vars

(* the first tick of a player that left the middle of the window with
   velocity (300, 0) *)
C20_Witness ==
    /\ frame_updates = 1
    /\ player.vel_x = SPRITE_SPEED
    /\ player.vel_y = 0
    /\ player.x = F32(373)
    /\ player.y = F32(268)
    /\ camera = [x |-> F32(0), y |-> F32(0)]

(* C21: running changes only from true to false, only in the event drain of
   a frame, and the drain clears it exactly when one of the events it sees
   is a window close or a key-down of ESC or Q; once false it stays false,
   and the loop then starts no further frame.  What the drain does to the
   flag depends on its batch of events only, so that part is examined for
   every batch of the platform as the loop is entered. *)
C21_RunningStopsOnceOnQuitSignal ==
    [][ /\ (running' # running)
            => running /\ ~running' /\ pc = "engine_handle_events"
        /\ (frame_log = << >> /\ pc' # pc)
            => \A evs \in EventBatches(platform.events) :
                  /\ engine_handle_events(TRUE, evs)
                        = (\A i \in 1..Len(evs) : ~QuitSignal(evs[i]))
                  /\ engine_handle_events(FALSE, evs) = FALSE
        /\ (~running /\ pc = "measure_delta")
            => pc' = "returned" /\ frame_log' = frame_log
        /\ (pc' = "input_update" /\ pc # pc') => running ]_vars

(* the loop has returned after a frame whose drain cleared the flag *)
C21_Witness ==
    /\ pc = "returned"
    /\ ~running
    /\ Rendered

(* C22: on a store whose z_index values all lie in [0,100], the order
   sprite_sort_by_z writes is the draw order of engine_render's z pass:
   ascending z_index, equal z_index in array order. *)
C22_SortedOrderIsRenderOrder ==
    (last_call.op = "sprite_sort_by_z" /\ StoreInZRange)
        => last_call.render_order = RenderOrder(sprites, sprite_count)

Converted == last_call.op = "world_to_screen"

(* s is the whole number of pixels at or next below the float d *)
IsFloorOf(s, d) == F32(s) <= d /\ d < F32(s + 1)

IsWhole(d) == d % F32(1) = 0

(* C23, as stated: each screen coordinate is floor(world - camera), also
   where the difference is negative and not whole. *)
C23_ScreenIsFloorOfDifference ==
    Converted =>
        /\ IsFloorOf(last_call.screen.x, last_call.world_x - camera.x)
        /\ IsFloorOf(last_call.screen.y, last_call.world_y - camera.y)

(* C23, amended: with d the float world - camera, the screen coordinate is
   floor(d) when d is whole or not negative, and floor(d) + 1 when d is
   negative and not whole. *)
C23_ScreenIsFloorOnlyForNonNegative ==
    Converted =>
        LET dx == F32Sub(last_call.world_x, camera.x)
            dy == F32Sub(last_call.world_y, camera.y)
            sx == last_call.screen.x
            sy == last_call.screen.y
        IN /\ IF dx >= 0 \/ IsWhole(dx) THEN IsFloorOf(sx, dx)
                                         ELSE IsFloorOf(sx - 1, dx)
           /\ IF dy >= 0 \/ IsWhole(dy) THEN IsFloorOf(sy, dy)
                                         ELSE IsFloorOf(sy - 1, dy)

(* a sprite half a pixel left of and a pixel and a quarter above the camera
   is put on screen column 0 and row -1, not column -1 and row -2 *)
C23_Witness ==
    /\ Converted
    /\ camera = [x |-> F32(0), y |-> F32(0)]
    /\ last_call.world_x = 0 - (F32(1) \div 2)
    /\ last_call.world_y = 0 - (F32(5) \div 4)
    /\ last_call.screen = [x |-> 0, y |-> 0 - 1]

(* s is the float d with its fraction discarded *)
IsTruncationOf(s, d) ==
    /\ d >= 0 => (0 <= s /\ IsFloorOf(s, d))
    /\ d <= 0 => (s <= 0 /\ F32(s - 1) < d /\ d <= F32(s))

(* C24: each screen coordinate is the float world - camera truncated toward
   zero; for whole-numbered inputs that is the exact difference, camera
   (50,20) and world (100,80) giving (50,60); the call always returns a
   result and changes neither the camera nor anything else. *)
C24_ScreenIsTruncatedDifference ==
    [][ last_call'.op = "world_to_screen" =>
          LET wx == last_call'.world_x
              wy == last_call'.world_y
              s == last_call'.screen
          IN /\ IsTruncationOf(s.x, F32Sub(wx, camera.x))
             /\ IsTruncationOf(s.y, F32Sub(wy, camera.y))
             /\ (IsWhole(wx) /\ IsWhole(camera.x)) => F32(s.x) = wx - camera.x
             /\ (IsWhole(wy) /\ IsWhole(camera.y)) => F32(s.y) = wy - camera.y
             /\ (camera = [x |-> F32(50), y |-> F32(20)]
                    /\ wx = F32(100) /\ wy = F32(80))
                   => s = [x |-> 50, y |-> 60]
             /\ camera' = camera
             /\ UNCHANGED << loopVars, sprite_count, renderVars, tm_count,
                             tm_entries, decode_calls, next_texture,
                             destroyed, first_handle >> ]_vars

(* the scenario's call *)
C24_Witness ==
    /\ Converted
    /\ camera = [x |-> F32(50), y |-> F32(20)]
    /\ last_call.world_x = F32(100)
    /\ last_call.world_y = F32(80)
    /\ last_call.screen = [x |-> 50, y |-> 60]

Initialised == last_call.op = "engine_init"

(* engine_init asked the decoder for the player asset, which failed *)
PlayerDecodeFailed ==
    /\ Initialised
    /\ last_call.env.renderer_ok
    /\ ~last_call.env.player_file.ok

(* engine_init got as far as the background, whose decoding failed *)
BackgroundDecodeFailed ==
    /\ Initialised
    /\ last_call.env.renderer_ok
    /\ last_call.env.player_file.ok \/ last_call.env.player_fallback_ok
    /\ ~last_call.env.background_file.ok

(* t is a live solid texture of size w x h and colour c *)
IsSolid(t, w, h, c) ==
    /\ t \in 1..Len(textures)
    /\ textures[t] = SolidTexture(w, h, c)

NotCached(path) ==
    \A i \in 1..tm_count : tm_entries[i].path # path

PlayerHasFallback ==
    /\ sprite_count >= 1
    /\ IsSolid(sprites[player_index + 1].texture, SPRITE_WIDTH,
               SPRITE_HEIGHT, COLOR_PLAYER)
    /\ sprites[player_index + 1].width = SPRITE_WIDTH
    /\ sprites[player_index + 1].height = SPRITE_HEIGHT
    /\ last_call.ret
    /\ running
    /\ NotCached(PLAYER_TEXTURE_PATH)

BackgroundHasFallback ==
    /\ IsSolid(background, WINDOW_WIDTH, WINDOW_HEIGHT, COLOR_BG)
    /\ last_call.ret
    /\ running
    /\ NotCached(BACKGROUND_TEXTURE_PATH)

(* C25, as stated: whenever the decoder fails for the player asset
   (respectively the background asset) during engine_init, the player sprite
   (the background) gets a solid texture of the fallback colour and the
   requested size, engine_init succeeds and the cache has no entry for the
   path. *)
C25_FailedAssetGetsFallback ==
    /\ PlayerDecodeFailed => PlayerHasFallback
    /\ BackgroundDecodeFailed => BackgroundHasFallback

(* C25, amended: the same, provided texture_create_colored can create the
   fallback; the cache has no entry for the failed path in any case. *)
C25_FailedAssetGetsFallbackIfCreated ==
    /\ (PlayerDecodeFailed /\ last_call.env.player_fallback_ok)
          => PlayerHasFallback
    /\ (BackgroundDecodeFailed /\ last_call.env.background_fallback_ok)
          => BackgroundHasFallback
    /\ PlayerDecodeFailed => NotCached(PLAYER_TEXTURE_PATH)
    /\ BackgroundDecodeFailed => NotCached(BACKGROUND_TEXTURE_PATH)

(* both assets missing, both fallbacks created *)
C25_Witness ==
    /\ PlayerDecodeFailed
    /\ BackgroundDecodeFailed
    /\ PlayerHasFallback
    /\ BackgroundHasFallback
    /\ tm_count = 0

(* window or renderer creation failed, or an asset could neither be decoded
   nor replaced by a solid texture *)
InitMustFail ==
    \/ ~last_call.env.renderer_ok
    \/ PlayerDecodeFailed /\ ~last_call.env.player_fallback_ok
    \/ BackgroundDecodeFailed /\ ~last_call.env.background_fallback_ok

(* C26: engine_init returns failure, running staying false, exactly when the
   window or renderer cannot be created or an asset load fails and its
   fallback texture cannot be created either, for the player and for the
   background alike; in every other case it returns success with running
   true. *)
C26_InitFailsExactlyOnFatalErrors ==
    /\ pc = "main" => ~running
    /\ Initialised =>
          IF InitMustFail THEN ~last_call.ret /\ ~running
                          ELSE last_call.ret /\ running

(* the indices of the stress sprites of the store *)
StressSlots ==
    IF stress_test_active
        THEN stress_test_base_index..(sprite_count - 1)
        ELSE {}

(* the layers on which the sprites of the slots S lie *)
LayersOf(S) == { sprites[i + 1].z_index : i \in S }

(* C27: every sprite below sprite_count has its z_index in [0,100], the
   player 50, the demo sprite 40 and the stress sprites 30..49; the z pass
   of engine_render therefore leaves out no sprite of the store and draws
   each stress sprite before the player.  The pass reads nothing of a
   sprite but its z_index, so it is run once for every layer in use. *)
C27_StoreStaysInsideTheLayers ==
    /\ \A i \in 0..(sprite_count - 1) :
          sprites[i + 1].z_index \in 0..Z_INDEX_MAX
    /\ \A z \in LayersOf(0..(sprite_count - 1)) :
          RenderOrder(<< [z_index |-> z] >>, 1) = << 0 >>
    /\ sprites[player_index + 1].z_index = 50
    /\ sprites[2].z_index = 40
    /\ \A i \in StressSlots : sprites[i + 1].z_index \in 30..49
    /\ \A z \in LayersOf(StressSlots) :
          RenderOrder(<< sprites[player_index + 1], [z_index |-> z] >>, 2)
              = << 1, 0 >>

(* a batch of stress sprites on several layers, moved by game_update *)
C27_Witness ==
    /\ stress_test_active
    /\ frame_updates >= 1
    /\ sprite_count = 2 + STRESS_TEST_SPRITE_COUNT
    /\ \E i, j \in StressSlots :
          /\ sprites[i + 1].z_index = 30
          /\ sprites[j + 1].z_index = 49

(* C28: once input_update has been called twice in a row with the keyboard
   unchanged, previous equals current for every tracked key, so no key, held
   or not, reports a press or a release edge; the same holds after any
   further call, until the keyboard changes. *)
C28_RepeatedUpdateMakesNoEdge ==
    Len(frame_log) >= 2 =>
        \A k \in BoundKeys :
            /\ previous[k] = current[k]
            /\ ~input_key_pressed(k)
            /\ ~input_key_released(k)

(* two calls in a row while two keys are held, one of them a toggle key *)
C28_Witness ==
    /\ frame_log = << "input_update", "input_update" >>
    /\ input_key_down(KEY_DEBUG_TOGGLE)
    /\ input_key_down(KEY_MOVE_RIGHT)
    /\ ~input_key_down(KEY_STRESS_TEST)
    /\ previous = current

(* the draw calls that copy a texture *)
CopyCalls ==
    { k \in 1..Len(draw_calls) :
        draw_calls[k].fn \in {"SDL_RenderCopy", "SDL_RenderCopyEx"} }

(* C29: after a sprite_render_ex call on a sprite that has a texture the
   texture's colour modulation is (255,255,255) whatever r, g, b were, the
   call itself having drawn with r, g, b; so every texture is neutral
   between calls, and every later copy of it, by sprite_render, by
   sprite_render_ex or by engine_render, is made with the modulation of its
   own call only. *)
C29_ModulationNeverLeaks ==
    /\ \A t \in 1..Len(textures) : textures[t].mod = ColorModNone
    /\ \A k \in CopyCalls :
          draw_calls[k].mod =
              IF last_call.op = "sprite_render_ex" THEN last_call.rgb
                                                   ELSE ColorModNone
    /\ (last_call.op = "sprite_render_ex"
          /\ sprites[last_call.index + 1].texture # NULL)
         => /\ Len(draw_calls) = 1
            /\ draw_calls[1].fn = "SDL_RenderCopyEx"
            /\ draw_calls[1].texture = sprites[last_call.index + 1].texture

(* the demo sprite drawn tinted; its texture is neutral again afterwards *)
C29_Witness ==
    /\ last_call.op = "sprite_render_ex"
    /\ last_call.index = 1
    /\ last_call.rgb = << 128, 0, 64 >>
    /\ sprites[2].texture # NULL
    /\ draw_calls[1].mod = << 128, 0, 64 >>
    /\ draw_calls[1].angle = 45
    /\ textures[sprites[2].texture].mod = ColorModNone

(* the step is a sprite_render or sprite_render_ex call on a sprite whose
   texture is NULL *)
DrawsTexturelessSprite ==
    /\ debug_enabled' = debug_enabled
    /\ last_call'.op \in {"sprite_render", "sprite_render_ex"}
    /\ sprites[last_call'.index + 1].texture = NULL

(* the step is an engine_render call *)
RendersFrame ==
    /\ debug_enabled' = debug_enabled
    /\ last_call'.op = "engine_render"

(* C30: sprite_render and sprite_render_ex on a sprite without a texture
   issue no draw call and change nothing; engine_render with such a sprite
   in the store copies no NULL texture, still copies every sprite that has
   a texture exactly once, and ends with the present call. *)
C30_TexturelessSpriteIsSkipped ==
    [][ /\ DrawsTexturelessSprite =>
              /\ draw_calls' = << >>
              /\ textures' = textures
              /\ UNCHANGED << drawFrame, draw_order, presented >>
        /\ RendersFrame =>
              /\ \A k \in CopyCalls' : draw_calls'[k].texture # NULL
              /\ \A i \in 0..(sprite_count - 1) :
                    sprites[i + 1].texture # NULL =>
                        Cardinality({ k \in CopyCalls' :
                            draw_calls'[k].texture = sprites[i + 1].texture })
                          = 1
              /\ draw_calls'[Len(draw_calls')].fn = "SDL_RenderPresent"
              /\ presented'
              /\ textures' = textures ]_vars

(* a frame rendered with the demo sprite textureless: the player is copied,
   the demo sprite is not, the frame is presented *)
C30_Witness ==
    /\ last_call.op = "engine_render"
    /\ sprite_count = 2
    /\ sprites[2].texture = NULL
    /\ presented
    /\ \E k \in CopyCalls :
          draw_calls[k].texture = sprites[player_index + 1].texture
    /\ draw_calls[Len(draw_calls)].fn = "SDL_RenderPresent"

(* sprites[i - 1] belongs to the running stress batch *)
InBatch(active, base, count, i) == active /\ i - 1 >= base /\ i - 1 < count

StoreTick == frame_updates' = frame_updates + 1

(* C31: while the stress test is active a game_update tick adds
   velocity * dt to the position of every sprite of the batch and then, on
   each axis by itself, negates the velocity exactly when the new coordinate
   is below minus the window size or above twice the window size; the
   magnitude of a velocity component never changes; a tick moves no other
   slot of the store, so none at all while the test is inactive *)
C31_StressSpritesDriftAndBounce ==
    [][StoreTick =>
        \A i \in 1..SPRITE_MAX_COUNT :
            LET s == sprites[i]
                t == sprites'[i]
            IN IF InBatch(stress_test_active, stress_test_base_index,
                          sprite_count, i)
                  THEN /\ t.x = s.x + s.vel_x * FIXED_TIMESTEP
                       /\ t.y = s.y + s.vel_y * FIXED_TIMESTEP
                       /\ t.vel_x =
                             IF t.x < 0 - Px(WINDOW_WIDTH) \/ t.x > Px(2 * WINDOW_WIDTH)
                                 THEN 0 - s.vel_x ELSE s.vel_x
                       /\ t.vel_y =
                             IF t.y < 0 - Px(WINDOW_HEIGHT) \/ t.y > Px(2 * WINDOW_HEIGHT)
                                 THEN 0 - s.vel_y ELSE s.vel_y
                       /\ Abs(t.vel_x) = Abs(s.vel_x)
                       /\ Abs(t.vel_y) = Abs(s.vel_y)
                  ELSE t = s]_vars

(* a tick has taken a sprite of the batch past the right bound and turned it
   round on x alone; a tick has gone by with the test inactive *)
C31_Witness ==
    /\ frame_updates > 0
    /\ stress_test_active
    /\ \E i \in 3..sprite_count :
          /\ sprites[i].x > Px(2 * WINDOW_WIDTH)
          /\ sprites[i].vel_x < 0
          /\ InWorldY(sprites[i])
          /\ sprites[i].vel_y > 0

(* C38: a stress sprite is spawned inside the world bounds; a tick that finds
   it beyond a bound brings it back inside and does not turn it round again
   on that axis, so it is never outside after two ticks in a row; it is never
   further beyond a bound than one tick of travel *)
C38_OutsideForOneTickOnly ==
    [][/\ TurnsOn =>
           \A i \in 1..SPRITE_MAX_COUNT :
               InBatch(TRUE, stress_test_base_index', sprite_count', i) =>
                   InWorldX(sprites'[i]) /\ InWorldY(sprites'[i])
       /\ StoreTick =>
           \A i \in 1..SPRITE_MAX_COUNT :
               InBatch(stress_test_active, stress_test_base_index,
                       sprite_count, i) =>
                   LET s == sprites[i]
                       t == sprites'[i]
                       step_x == Abs(s.vel_x) * FIXED_TIMESTEP
                       step_y == Abs(s.vel_y) * FIXED_TIMESTEP
                   IN /\ ~InWorldX(s) => InWorldX(t) /\ t.vel_x = s.vel_x
                      /\ ~InWorldY(s) => InWorldY(t) /\ t.vel_y = s.vel_y
                      /\ t.x >= 0 - Px(WINDOW_WIDTH) - step_x
                      /\ t.x <= Px(2 * WINDOW_WIDTH) + step_x
                      /\ t.y >= 0 - Px(WINDOW_HEIGHT) - step_y
                      /\ t.y <= Px(2 * WINDOW_HEIGHT) + step_y]_vars

(* two ticks after a sprite was last inside on its way out it is inside
   again, moving inwards: here back from below the top bound *)
C38_Witness ==
    /\ frame_updates = 2
    /\ stress_test_active
    /\ \E i \in 3..sprite_count :
          /\ sprites[i].y = 0 - Px(WINDOW_HEIGHT)
          /\ sprites[i].vel_y > 0

(* what the held keys of an axis add up to, in steps: the key towards
   greater coordinates less the key towards smaller ones *)
NetPan(pos, neg) ==
    (IF current[pos] THEN 1 ELSE 0) - (IF current[neg] THEN 1 ELSE 0)

HeldPan(pos, neg) ==
    (IF current[pos] THEN 1 ELSE 0) + (IF current[neg] THEN 1 ELSE 0)

PanStep == F32TimesTimestep(CAMERA_SPEED)

(* C32: on every tick the camera moves by CAMERA_SPEED * dt along the axis of
   every pan key held, on each tick for as long as the key is held; opposite
   keys held together leave the axis as it was, and so does no key held *)
C32_CameraMovesByStepPerHeldKey ==
    [][FloatTick =>
          /\ camera'.x - camera.x = NetPan(KEY_CAM_RIGHT, KEY_CAM_LEFT) * PanStep
          /\ camera'.y - camera.y = NetPan(KEY_CAM_DOWN, KEY_CAM_UP) * PanStep
      ]_vars

(* how far a pan of n float additions may end from the exact sum, counted in
   2^-21: half a spacing of the floats the pan passes through for each *)
PanSlack(c, n) == (n * F32Quantum(Abs(c) + PanStep)) \div 2

(* C32, as amended: on every tick each held pan key adds the float
   CAMERA_SPEED * FIXED_TIMESTEP to its axis or subtracts it, up or left
   first, and each addition is rounded to single precision: the camera moves
   by the held keys' steps up to that rounding, by exactly one step on the
   first tick from the origin, and not at all on an axis none of whose keys
   is held; opposite keys held together leave the axis where it was up to
   one rounding. *)
C32_CameraMovesByRoundedSteps ==
    [][FloatTick =>
          /\ Abs(camera'.x - camera.x
                   - NetPan(KEY_CAM_RIGHT, KEY_CAM_LEFT) * PanStep)
                <= PanSlack(camera.x, HeldPan(KEY_CAM_RIGHT, KEY_CAM_LEFT))
          /\ Abs(camera'.y - camera.y
                   - NetPan(KEY_CAM_DOWN, KEY_CAM_UP) * PanStep)
                <= PanSlack(camera.y, HeldPan(KEY_CAM_DOWN, KEY_CAM_UP))
          /\ camera.x = 0 =>
                camera'.x = NetPan(KEY_CAM_RIGHT, KEY_CAM_LEFT) * PanStep
          /\ camera.y = 0 =>
                camera'.y = NetPan(KEY_CAM_DOWN, KEY_CAM_UP) * PanStep
      ]_vars

(* the camera two ticks up from the origin after a tick with up and down
   both held: one rounding above where it was *)
C32_Witness ==
    /\ frame_updates = 3
    /\ current[KEY_CAM_UP]
    /\ current[KEY_CAM_DOWN]
    /\ camera.y = 1 - 2 * PanStep

(* the textures SDL_DestroyTexture has been called on *)
DestroyedSet == {destroyed[k] : k \in 1..Len(destroyed)}

(* no sprite below sprite_count and no background holds a destroyed texture *)
NoDestroyedReference ==
    /\ \A i \in 1..sprite_count :
          sprites[i].texture # NULL => sprites[i].texture \notin DestroyedSet
    /\ background # NULL => background \notin DestroyedSet

(* C34: while the engine loop runs, whatever the order of stress toggles,
   ticks and renders, no sprite at an index below sprite_count and no
   background holds a texture that has been destroyed, and engine_render
   hands no destroyed texture to SDL *)
C34_NoDestroyedTextureInUse ==
    [][/\ pc = "engine_run" => NoDestroyedReference
       /\ pc' = "engine_run" => NoDestroyedReference'
       /\ FrameRender =>
             \A k \in 1..Len(draw_calls') :
                 draw_calls'[k].texture \notin DestroyedSet]_vars

(* a frame rendered with the second batch of stress sprites, the textures of
   the first having been destroyed *)
C34_Witness ==
    /\ pc = "engine_run"
    /\ presented
    /\ stress_test_active
    /\ last_call.batches = 2
    /\ Len(destroyed) > 0
    /\ sprite_count > 2
    /\ \E k \in 1..Len(draw_calls) :
          draw_calls[k].texture = sprites[sprite_count].texture

(* the textures the cache holds *)
CacheOwned == {tm_entries[i].texture : i \in 1..tm_count} \ {NULL}

SeqSet(s) == {s[k] : k \in 1..Len(s)}

(* C35: one engine_cleanup after engine_init and any frames destroys every
   texture still alive exactly once, the cache's through
   texture_manager_cleanup only, the sprites' own and the fallbacks through
   the sprite and background pass only, whichever of the two asset loads
   failed and whether the stress test is on or off; over the whole run every
   texture created has then been destroyed once, none twice and none never;
   no sprite but the player ever holds a texture of the cache *)
C35_CleanupDestroysEachLiveTextureOnce ==
    [][/\ (pc = "engine_run" /\ pc' = "cleaned_up") =>
             LET all == 1..(next_texture - 1)
                 live == all \ DestroyedSet
             IN /\ CacheOwned \subseteq live
                /\ SeqSet(last_call'.cache) = CacheOwned
                /\ Len(last_call'.cache) = Cardinality(CacheOwned)
                /\ SeqSet(last_call'.pass) = live \ CacheOwned
                /\ Len(last_call'.pass) = Cardinality(live \ CacheOwned)
                /\ destroyed' = destroyed \o last_call'.pass \o last_call'.cache
                /\ SeqSet(destroyed') = all
                /\ Len(destroyed') = Cardinality(all)
       /\ pc = "engine_run" =>
             \A i \in 2..sprite_count : sprites[i].texture \notin CacheOwned
      ]_vars

(* a cleanup with both assets in the cache and a stress batch in the store *)
C35_Witness ==
    /\ pc = "cleaned_up"
    /\ stress_test_active
    /\ Len(last_call.cache) = 2
    /\ Len(last_call.pass) > STRESS_TEST_SPRITE_COUNT \div 2
    /\ last_call.cache[1] = sprites[1].texture
    /\ last_call.cache[2] = background

(* the frame's sum of accumulator and delta, before it is capped *)
BeforeClamp == F32Add(acc_start, delta_time)

(* C36 as stated: before the cap the accumulator is below MAX_DELTA_TIME +
   FIXED_TIMESTEP, and after every frame the accumulator is exactly the sum
   of the capped deltas less FIXED_TIMESTEP for every game_update call made
   so far, so that simulated time is never ahead of that sum and less than
   one FIXED_TIMESTEP behind it. *)
C36_AccumulatorIsExactlyUnsimulatedTime ==
    frames > 0 =>
        /\ BeforeClamp < F32_MAX_DELTA_TIME + F32_FIXED_TIMESTEP
        /\ accumulator = unsimulated
        /\ unsimulated >= 0
        /\ unsimulated < F32_FIXED_TIMESTEP

(* the rounding n frames can add up to, in 2^-30 seconds: a frame makes one
   addition and a subtraction for each of at most seven game_update calls,
   and each is rounded by at most half the spacing of the floats below
   0.125, which is 4 *)
ClockSlack(n) == n * 8 * 4

(* C36: the accumulator cap never takes time away: before the cap the
   accumulator is below MAX_DELTA_TIME + FIXED_TIMESTEP, which is below
   MAX_ACCUMULATOR, so the cap leaves it as it is; after every frame the
   accumulator lies in [0, FIXED_TIMESTEP); and it differs from the sum of
   the capped deltas less FIXED_TIMESTEP per game_update call by rounding
   only, at most half a float spacing for every operation made. *)
C36_AccumulatorClampNeverFires ==
    frames > 0 =>
        /\ BeforeClamp < F32_MAX_DELTA_TIME + F32_FIXED_TIMESTEP
        /\ F32_MAX_DELTA_TIME + F32_FIXED_TIMESTEP < F32_MAX_ACCUMULATOR
        /\ acc_before_updates = BeforeClamp
        /\ accumulator >= 0
        /\ accumulator < F32_FIXED_TIMESTEP
        /\ Abs(accumulator - unsimulated)
              <= ClockSlack(frames)

(* after a frame of 100 ms on an empty accumulator six calls were made and
   the accumulator holds 4 * 2^-30 s, while the six steps add up to more
   than the delta *)
C36_Witness ==
    /\ frames = 1
    /\ measured = 100
    /\ frame_updates = 6
    /\ accumulator = 4
    /\ unsimulated = 0 - 4

(* C37: the frame whose drain clears running is carried through: the drain
   goes on to the end of the queue, and engine_run returns only from the
   loop condition, after a frame in which every step ran in its place, the
   toggles acted on their press edges, the update loop ran the accumulator
   below FIXED_TIMESTEP with as many calls as the frame's time asks for,
   and engine_render ran once, as the last step. *)
C37_QuitFrameIsCompleted ==
    [][ /\ (running /\ ~running') => pending' = << >>
        /\ (~running /\ pc = "toggles")
              => /\ (debug_enabled' # debug_enabled)
                       = input_key_pressed(KEY_DEBUG_TOGGLE)
                 /\ (stress_test_active' # stress_test_active)
                       = input_key_pressed(KEY_STRESS_TEST)
        /\ (~running /\ pc # "measure_delta") => pc' # "returned"
        /\ (pc' = "returned" /\ pc # "returned")
              => /\ ~running
                 /\ frame_log = ExpectedLog(frame_updates)
                 /\ frame_updates = FrameResult(acc_start, measured)[1]
                 /\ accumulator < FIXED_TIMESTEP ]_vars

(* engine_run has returned after a frame of 100 ms whose drain brought the
   stress key's press and a quit signal: the stress test went on in that
   frame and its six updates were made *)
C37_Witness ==
    /\ pc = "returned"
    /\ quit_seen
    /\ ~previous[KEY_STRESS_TEST]
    /\ current[KEY_STRESS_TEST]
    /\ stress_test_active
    /\ hold_toggles[KEY_STRESS_TEST] = 1
    /\ frame_updates = 6

(* C39: termination.  Every pass of the update loop takes FIXED_TIMESTEP
   off the accumulator and leaves it non-negative, and the loop is always
   left for the next loop test; once the platform has delivered a quit
   signal engine_run eventually returns; and it has returned only if a quit
   signal was delivered. *)
C39_Termination ==
    /\ [][(frame_updates' = frame_updates + 1)
            => /\ accumulator >= FIXED_TIMESTEP
               /\ accumulator' = accumulator - FIXED_TIMESTEP
               /\ accumulator' < accumulator
               /\ accumulator' >= 0]_vars
    /\ (pc = "fixed_update") ~> (pc = "measure_delta")
    /\ quit_seen ~> (pc = "returned")
    /\ [](pc = "returned" => quit_seen)

(* engine_run has returned after a quit signal, from a frame whose update
   loop made six passes and left less than one step in the accumulator *)
C39_Witness ==
    /\ pc = "returned"
    /\ quit_seen
    /\ ~running
    /\ frame_updates = 6
    /\ accumulator < FIXED_TIMESTEP

(* the velocity the held keys ask for on one axis: the positive direction
   (down, right) if one of its keys is held, else the negative one if one
   of its keys is held, else none *)
AxisVelocity(negative, positive) ==
    IF \E k \in positive : current[k] THEN SPRITE_SPEED
    ELSE IF \E k \in negative : current[k] THEN 0 - SPRITE_SPEED
    ELSE 0

(* how often step occurs in log *)
TimesLogged(log, step) == Cardinality({i \in 1..Len(log) : log[i] = step})

(* C33: the game_process_input step of a frame sets each component of the
   player's velocity from the keys held at that moment: SPRITE_SPEED if a
   key of the positive direction (right, down) is held, primary or
   alternate, else -SPRITE_SPEED if a key of the negative direction is
   held, else 0; it leaves the position alone.  No other step of the frame
   writes the velocity, so every fixed tick of the frame sees the same one,
   and a frame makes the step once. *)
C33_VelocitySetOncePerFrameFromHeldKeys ==
    [][ /\ (pc = "game_process_input")
              => /\ player'.vel_x = AxisVelocity({KEY_MOVE_LEFT, KEY_MOVE_LEFT_ALT},
                                       {KEY_MOVE_RIGHT, KEY_MOVE_RIGHT_ALT})
                 /\ player'.vel_y = AxisVelocity({KEY_MOVE_UP, KEY_MOVE_UP_ALT},
                                       {KEY_MOVE_DOWN, KEY_MOVE_DOWN_ALT})
                 /\ player'.x = player.x
                 /\ player'.y = player.y
                 /\ current' = current
        /\ (pc # "game_process_input")
              => player'.vel_x = player.vel_x /\ player'.vel_y = player.vel_y
        /\ (pc = "fixed_update")
              => TimesLogged(frame_log, "game_process_input") = 1 ]_vars

(* a frame rendered after two fixed ticks, with the right key and the
   alternate left key both held and the up key held alone: the player moved
   right and up by two steps *)
C33_Witness ==
    /\ Rendered
    /\ frame_updates = 2
    /\ current[KEY_MOVE_RIGHT] /\ current[KEY_MOVE_LEFT_ALT]
    /\ current[KEY_MOVE_UP] /\ ~current[KEY_MOVE_DOWN_ALT]
    /\ player.vel_x = SPRITE_SPEED
    /\ player.vel_y = 0 - SPRITE_SPEED
    /\ player.x > PLAYER_START_X
    /\ player.y < PLAYER_START_Y

====
